---- MODULE Spec2Model ----
(***************************************************************************)
(* The library store of desktop-soundcloud (src-tauri/src/library/mod.rs): *)
(* the SQLite tables, the statements the store's methods execute, the      *)
(* transactions around them, the startup migration of legacy payloads and  *)
(* the DJ-library import (sync_rekordbox_tracks).                          *)
(*                                                                         *)
(* A method is modelled as the list of SQL statements it executes, in      *)
(* order.  RunStatements executes such a list until a statement fails      *)
(* (a foreign-key violation, or a database error injected at a chosen      *)
(* position).  A method that runs inside a rusqlite Transaction keeps the   *)
(* result only if every statement succeeded (the Transaction is dropped    *)
(* without commit on `?`, which rolls back); a method that runs on the      *)
(* bare connection keeps whatever the statements before the failure did.   *)
(***************************************************************************)
EXTENDS Integers, Sequences, FiniteSets, TLC

VARIABLES
    opened,                  \* LibraryStore::initialize has returned Ok
    tracks,                  \* table tracks:              id -> row
    soundcloud_sources,      \* table soundcloud_sources:  track_id -> row
    rekordbox_sources,       \* table rekordbox_sources:   track_id -> row
    local_assets,            \* table local_assets:        track_id -> row
    rekordbox_mappings,      \* table rekordbox_mappings:  rekordbox_id -> track_id
    discogs_matches,         \* table discogs_matches:     track_id -> row
    discogs_candidates,      \* table discogs_candidates:  rows in rowid order
    musicbrainz_matches,     \* table musicbrainz_matches: track_id -> row
    musicbrainz_candidates,  \* table musicbrainz_candidates: rows in rowid order
    last,                    \* the call that produced this state, its arguments and result
    worker,                  \* the lookup worker task of one catalog and its RateLimiter
    app                      \* AppState: the library's mutex, the rekordbox watcher, the
                             \* tasks spawned for it, the other catalog's worker

vars == <<opened, tracks, soundcloud_sources, rekordbox_sources, local_assets,
          rekordbox_mappings, discogs_matches, discogs_candidates,
          musicbrainz_matches, musicbrainz_candidates, last, worker, app>>

----------------------------------------------------------------------------
(* Bounds of the model *)

MaxRekordboxIds == 2     \* distinct DJ-library ids an import can name
MaxImportLen == 2        \* tracks in one import list
MaxCandidates == 2       \* candidates passed to one record_match call
MaxCandidateRows == 3    \* rows of one candidates table (caps foreign inserts)
MaxJobs == 2             \* jobs a lookup worker receives
MaxResults == 2          \* results of one search response
MaxQueued == 34          \* queue_lookup calls on one service, beyond its channel
MaxPending == 2          \* queue_lookup calls on each of two services

----------------------------------------------------------------------------
(* Option<T>: None is the empty tuple, Some(x) the one-element tuple *)

None == <<>>
Some(x) == <<x>>
IsSome(o) == o # <<>>

(* Sequence helpers *)
RECURSIVE SeqOfSet(_)
SeqOfSet(S) == IF S = {} THEN <<>>
               ELSE LET x == CHOOSE y \in S : TRUE IN <<x>> \o SeqOfSet(S \ {x})

SeqsUpTo(S, n) == UNION { [1..k -> S] : k \in 0..n }

Orderings(S) == { s \in [1..Cardinality(S) -> S] : \A i, j \in 1..Cardinality(S) : s[i] = s[j] => i = j }

Range(s) == { s[i] : i \in 1..Len(s) }

Restrict(f, S) == [x \in S |-> f[x]]

Put(f, k, v) == [x \in DOMAIN f \cup {k} |-> IF x = k THEN v ELSE f[x]]

----------------------------------------------------------------------------
(* serde_json::Value, as far as the store reads it: the three id keys and  *)
(* the score of a release document.  A key is absent, null, a string, an   *)
(* integer or a non-integer number.                                        *)

JAbsent == [k |-> "absent", s |-> "", n |-> 0]
JNull == [k |-> "null", s |-> "", n |-> 0]
JStr(str) == [k |-> "string", s |-> str, n |-> 0]
JInt(i) == [k |-> "integer", s |-> "", n |-> i]
JFloat == [k |-> "float", s |-> "", n |-> 0]

Release(id, release_id, master_id, score) ==
    [id |-> id, release_id |-> release_id, master_id |-> master_id, score |-> score]

(* Value::get(key).or_else(...): the first of id, release_id, master_id    *)
(* that is present (a present null counts as present).                     *)
IdValue(value) ==
    IF value.id.k # "absent" THEN value.id
    ELSE IF value.release_id.k # "absent" THEN value.release_id
    ELSE value.master_id

extract_release_id(value) ==
    LET id_value == IdValue(value)
    IN CASE id_value.k = "string" -> Some(id_value.s)
         [] id_value.k = "integer" -> Some(ToString(id_value.n))
         [] OTHER -> None

(* value.get("score").and_then(as_f64): a number, or nothing *)
ScoreOf(value) == value.score

----------------------------------------------------------------------------
(* The database: one field per table of apply_migrations' schema *)

Catalogs == {"discogs", "musicbrainz"}

MatchesTable(catalog) == catalog \o "_matches"
CandidatesTable(catalog) == catalog \o "_candidates"
ReleaseIdColumn(catalog) == catalog \o "_release_id"
ConfidenceColumn(catalog) == catalog \o "_confidence"
PayloadColumn(catalog) == catalog \o "_payload"

(* a row of tracks, as INSERT INTO tracks (id) leaves it: every other      *)
(* column NULL (title stands for title, artist and album, which every      *)
(* statement writes together)                                              *)
BareTrack ==
    [title |-> None,
     discogs_payload |-> None, discogs_release_id |-> None, discogs_confidence |-> None,
     musicbrainz_payload |-> None, musicbrainz_release_id |-> None,
     musicbrainz_confidence |-> None]

(* a table without rows *)
EmptyTable == [key \in {} |-> None]

Database ==
    [tracks |-> tracks, soundcloud_sources |-> soundcloud_sources,
     rekordbox_sources |-> rekordbox_sources, local_assets |-> local_assets,
     rekordbox_mappings |-> rekordbox_mappings,
     discogs_matches |-> discogs_matches, discogs_candidates |-> discogs_candidates,
     musicbrainz_matches |-> musicbrainz_matches,
     musicbrainz_candidates |-> musicbrainz_candidates]

(* the connection's file after the call: db becomes the tables *)
Becomes(db) ==
    /\ tracks' = db.tracks
    /\ soundcloud_sources' = db.soundcloud_sources
    /\ rekordbox_sources' = db.rekordbox_sources
    /\ local_assets' = db.local_assets
    /\ rekordbox_mappings' = db.rekordbox_mappings
    /\ discogs_matches' = db.discogs_matches
    /\ discogs_candidates' = db.discogs_candidates
    /\ musicbrainz_matches' = db.musicbrainz_matches
    /\ musicbrainz_candidates' = db.musicbrainz_candidates

----------------------------------------------------------------------------
(* SQL statements.  Each returns [ok, db]; a failed statement changes      *)
(* nothing.  fk is PRAGMA foreign_keys.                                    *)

Done(db) == [ok |-> TRUE, db |-> db]
Failed(db) == [ok |-> FALSE, db |-> db]

(* FOREIGN KEY(track_id) REFERENCES tracks(id): the insert or update of a  *)
(* child row fails when the parent is missing                              *)
ChildUpsert(db, fk, table, track_id, row) ==
    IF fk /\ track_id \notin DOMAIN db.tracks THEN Failed(db)
    ELSE Done([db EXCEPT ![table] = Put(@, track_id, row)])

(* INSERT OR IGNORE INTO tracks (id) VALUES (:track_id) *)
InsertOrIgnoreTrack(db, track_id) ==
    IF track_id \in DOMAIN db.tracks THEN Done(db)
    ELSE Done([db EXCEPT !.tracks = Put(@, track_id, BareTrack)])

(* INSERT OR IGNORE in place of the upsert: a row that is there is kept *)
InsertOrIgnoreTrackRow(db, record) ==
    IF record.track_id \in DOMAIN db.tracks THEN Done(db)
    ELSE Done([db EXCEPT !.tracks = Put(@, record.track_id,
                 [BareTrack EXCEPT
                    !.title = record.title,
                    !.discogs_release_id = record.discogs_release_id,
                    !.discogs_confidence = record.discogs_confidence,
                    !.musicbrainz_release_id = record.musicbrainz_release_id,
                    !.musicbrainz_confidence = record.musicbrainz_confidence,
                    !.musicbrainz_payload = record.musicbrainz_payload])])

(* upsert_track's INSERT ... ON CONFLICT(id) DO UPDATE: every column but   *)
(* discogs_payload is written from the record                              *)
UpsertTrackRow(db, record) ==
    LET old == IF record.track_id \in DOMAIN db.tracks THEN db.tracks[record.track_id]
               ELSE BareTrack
        row == [old EXCEPT
                  !.title = record.title,
                  !.discogs_release_id = record.discogs_release_id,
                  !.discogs_confidence = record.discogs_confidence,
                  !.musicbrainz_release_id = record.musicbrainz_release_id,
                  !.musicbrainz_confidence = record.musicbrainz_confidence,
                  !.musicbrainz_payload = record.musicbrainz_payload]
    IN Done([db EXCEPT !.tracks = Put(@, record.track_id, row)])

(* sync_rekordbox_tracks' INSERT INTO tracks (id, title, artist, album)    *)
(* ... ON CONFLICT(id) DO UPDATE SET title, artist, album                  *)
UpsertLibraryTrackRow(db, track_id, title) ==
    LET old == IF track_id \in DOMAIN db.tracks THEN db.tracks[track_id] ELSE BareTrack
    IN Done([db EXCEPT !.tracks = Put(@, track_id, [old EXCEPT !.title = title])])

(* INSERT INTO <catalog>_matches ... ON CONFLICT(track_id) DO UPDATE SET   *)
(* every column                                                            *)
UpsertMatchRow(db, fk, catalog, record) ==
    ChildUpsert(db, fk, MatchesTable(catalog), record.track_id,
                [release_id |-> record.release_id, confidence |-> record.confidence,
                 status |-> record.status, message |-> record.message])

(* UPDATE tracks SET <catalog>_release_id, <catalog>_confidence WHERE id   *)
UpdateTrackSummary(db, catalog, track_id, release_id, confidence) ==
    IF track_id \notin DOMAIN db.tracks THEN Done(db)
    ELSE Done([db EXCEPT !.tracks[track_id] =
                  [@ EXCEPT ![ReleaseIdColumn(catalog)] = release_id,
                            ![ConfidenceColumn(catalog)] = confidence]])

(* the legacy column left as it was *)
KeepLegacyPayload(db, catalog, track_id) == Done(db)

(* UPDATE tracks SET <catalog>_payload = NULL WHERE id *)
ClearLegacyPayload(db, catalog, track_id) ==
    IF track_id \notin DOMAIN db.tracks THEN Done(db)
    ELSE Done([db EXCEPT !.tracks[track_id] = [@ EXCEPT ![PayloadColumn(catalog)] = None]])

(* the delete left out *)
KeepCandidates(db, catalog, match_id) == Done(db)

(* DELETE FROM <catalog>_candidates WHERE match_id = :match_id *)
DeleteCandidates(db, catalog, match_id) ==
    Done([db EXCEPT ![CandidatesTable(catalog)] =
             SelectSeq(@, LAMBDA row : row.match_id # match_id)])

(* INSERT INTO <catalog>_candidates: FOREIGN KEY(match_id) REFERENCES      *)
(* <catalog>_matches(track_id)                                             *)
InsertCandidate(db, fk, catalog, row) ==
    IF fk /\ row.match_id \notin DOMAIN db[MatchesTable(catalog)] THEN Failed(db)
    ELSE Done([db EXCEPT ![CandidatesTable(catalog)] = Append(@, row)])

Without(f, k) == Restrict(f, DOMAIN f \ {k})

(* the delete without ON DELETE CASCADE *)
DeleteTrackOnly(db, fk, track_id) == Done([db EXCEPT !.tracks = Without(@, track_id)])

(* DELETE FROM tracks WHERE id: with foreign keys on, ON DELETE CASCADE    *)
(* removes the rows of the five tables that reference the track, and the   *)
(* candidates that reference its match rows                                *)
DeleteTrack(db, fk, track_id) ==
    IF ~fk THEN Done([db EXCEPT !.tracks = Without(@, track_id)])
    ELSE Done([db EXCEPT
            !.tracks = Without(@, track_id),
            !.soundcloud_sources = Without(@, track_id),
            !.rekordbox_sources = Without(@, track_id),
            !.local_assets = Without(@, track_id),
            !.rekordbox_mappings =
                Restrict(@, { r \in DOMAIN @ : @[r] # track_id }),
            !.discogs_matches = Without(@, track_id),
            !.discogs_candidates =
                IF track_id \in DOMAIN db.discogs_matches
                THEN SelectSeq(@, LAMBDA row : row.match_id # track_id) ELSE @,
            !.musicbrainz_matches = Without(@, track_id),
            !.musicbrainz_candidates =
                IF track_id \in DOMAIN db.musicbrainz_matches
                THEN SelectSeq(@, LAMBDA row : row.match_id # track_id) ELSE @])

(* one statement of a method's list *)
Execute(db, fk, st) ==
    CASE st.op = "ensure_track" -> InsertOrIgnoreTrack(db, st.track_id)
      [] st.op = "upsert_track" -> UpsertTrackRow(db, st.record)
      [] st.op = "upsert_library_track" -> UpsertLibraryTrackRow(db, st.track_id, st.title)
      [] st.op = "upsert_soundcloud_source" ->
            ChildUpsert(db, fk, "soundcloud_sources", st.track_id, st.row)
      [] st.op = "upsert_rekordbox_source" ->
            ChildUpsert(db, fk, "rekordbox_sources", st.track_id, st.row)
      [] st.op = "upsert_local_asset" ->
            ChildUpsert(db, fk, "local_assets", st.track_id, st.row)
      [] st.op = "upsert_mapping" ->
            IF fk /\ st.track_id \notin DOMAIN db.tracks THEN Failed(db)
            ELSE Done([db EXCEPT !.rekordbox_mappings = Put(@, st.rekordbox_id, st.track_id)])
      [] st.op = "upsert_match" -> UpsertMatchRow(db, fk, st.catalog, st.record)
      [] st.op = "update_summary" ->
            UpdateTrackSummary(db, st.catalog, st.track_id, st.release_id, st.confidence)
      [] st.op = "update_summary_clear_payload" ->
            LET r == UpdateTrackSummary(db, st.catalog, st.track_id, st.release_id,
                                        st.confidence)
            IN ClearLegacyPayload(r.db, st.catalog, st.track_id)
      [] st.op = "clear_payload" -> ClearLegacyPayload(db, st.catalog, st.track_id)
      [] st.op = "delete_candidates" -> DeleteCandidates(db, st.catalog, st.match_id)
      [] st.op = "insert_candidate" -> InsertCandidate(db, fk, st.catalog, st.row)
      [] st.op = "delete_track" -> DeleteTrack(db, fk, st.track_id)

(* The statements of a method executed in order.  fail = 0 injects no      *)
(* error; fail = k makes the k-th statement return a database error.       *)
(* Returns the database at the point the method returns, whether it        *)
(* returned Ok, and the statement that failed.                             *)
RECURSIVE RunFrom(_, _, _, _, _)
RunFrom(db, fk, statements, fail, i) ==
    IF i > Len(statements) THEN [ok |-> TRUE, db |-> db, failed_at |-> "none"]
    ELSE IF i = fail THEN [ok |-> FALSE, db |-> db, failed_at |-> statements[i].op]
    ELSE LET r == Execute(db, fk, statements[i])
         IN IF r.ok THEN RunFrom(r.db, fk, statements, fail, i + 1)
            ELSE [ok |-> FALSE, db |-> db, failed_at |-> statements[i].op]

RunStatements(db, fk, statements, fail) == RunFrom(db, fk, statements, fail, 1)

(* statements on the bare connection: each is its own transaction *)
Autocommit(db, fk, statements, fail) == RunStatements(db, fk, statements, fail)

(* connection.transaction() ... transaction.commit(): an early return      *)
(* drops the Transaction, which rolls back                                 *)
Transaction(db, fk, statements, fail) ==
    LET r == RunStatements(db, fk, statements, fail)
    IN IF r.ok THEN r ELSE [r EXCEPT !.db = db]

----------------------------------------------------------------------------
(* The store's methods, as the statements they execute *)

MatchRecord(track_id, release_id, confidence, status, message) ==
    [track_id |-> track_id, release_id |-> release_id, confidence |-> confidence,
     status |-> status, message |-> message]

CandidateRecord(match_id, release_id, score, raw_payload) ==
    [match_id |-> match_id, release_id |-> release_id, score |-> score,
     raw_payload |-> raw_payload]

InsertCandidateStatements(catalog, rows) ==
    [i \in 1..Len(rows) |-> [op |-> "insert_candidate", catalog |-> catalog, row |-> rows[i]]]

(* the head without the delete of the track's candidates *)
PersistMatchHeadWithoutDelete(catalog, record) ==
    << [op |-> "ensure_track", track_id |-> record.track_id],
       [op |-> "upsert_match", catalog |-> catalog, record |-> record],
       [op |-> "update_summary", catalog |-> catalog, track_id |-> record.track_id,
        release_id |-> record.release_id, confidence |-> record.confidence] >>

(* the four statements both persist_*_match methods start with *)
PersistMatchHead(catalog, record) ==
    << [op |-> "ensure_track", track_id |-> record.track_id],
       [op |-> "upsert_match", catalog |-> catalog, record |-> record],
       [op |-> "update_summary", catalog |-> catalog, track_id |-> record.track_id,
        release_id |-> record.release_id, confidence |-> record.confidence],
       [op |-> "delete_candidates", catalog |-> catalog, match_id |-> record.track_id] >>

(* a candidate whose match_id is not the record's track is skipped; the    *)
(* rows are inserted under record.track_id                                 *)
persist_discogs_match(record, candidates) ==
    LET own == SelectSeq(candidates, LAMBDA c : c.match_id = record.track_id)
    IN PersistMatchHead("discogs", record)
       \o InsertCandidateStatements("discogs",
              [i \in 1..Len(own) |-> [own[i] EXCEPT !.match_id = record.track_id]])

(* every candidate is inserted, under the candidate's own match_id *)
persist_musicbrainz_match(record, candidates) ==
    PersistMatchHead("musicbrainz", record)
    \o InsertCandidateStatements("musicbrainz", candidates)

persist_match(catalog, record, candidates) ==
    IF catalog = "discogs" THEN persist_discogs_match(record, candidates)
    ELSE persist_musicbrainz_match(record, candidates)

(* record_match whose statements run on the bare connection *)
record_match_autocommit(db, catalog, record, candidates, fail) ==
    Autocommit(db, TRUE, persist_match(catalog, record, candidates), fail)

(* record_discogs_match / record_musicbrainz_match *)
record_match(db, catalog, record, candidates, fail) ==
    Transaction(db, TRUE, persist_match(catalog, record, candidates), fail)

(* the candidates record_*_ambiguity builds: a candidate without a release *)
(* id is dropped                                                           *)
AmbiguityCandidates(track_id, candidates) ==
    LET identified == SelectSeq(candidates, LAMBDA c : IsSome(extract_release_id(c)))
    IN [i \in 1..Len(identified) |->
           CandidateRecord(track_id, extract_release_id(identified[i]),
                           ScoreOf(identified[i]), identified[i])]

(* the candidate and the record record_*_success builds *)
SuccessCandidate(catalog, track_id, release, confidence) ==
    CandidateRecord(track_id, extract_release_id(release),
                    IF catalog = "discogs" /\ IsSome(ScoreOf(release))
                    THEN ScoreOf(release) ELSE Some(confidence),
                    release)

SuccessRecord(track_id, release, confidence) ==
    MatchRecord(track_id, extract_release_id(release), Some(confidence), "success", None)

AmbiguityRecord(track_id) == MatchRecord(track_id, None, None, "ambiguous", None)

FailureRecord(track_id, reason) == MatchRecord(track_id, None, None, "error", Some(reason))

record_success(db, catalog, track_id, release, confidence, fail) ==
    record_match(db, catalog, SuccessRecord(track_id, release, confidence),
                 <<SuccessCandidate(catalog, track_id, release, confidence)>>, fail)

record_ambiguity(db, catalog, track_id, candidates, fail) ==
    record_match(db, catalog, AmbiguityRecord(track_id),
                 AmbiguityCandidates(track_id, candidates), fail)

record_failure(db, catalog, track_id, reason, fail) ==
    record_match(db, catalog, FailureRecord(track_id, reason), <<>>, fail)

(* confirm_musicbrainz_match: the confidence given, else the release's     *)
(* score, else 100                                                         *)
DefaultConfidence == 100

ResolvedConfidence(release, confidence) ==
    IF IsSome(confidence) THEN confidence[1]
    ELSE IF IsSome(ScoreOf(release)) THEN ScoreOf(release)[1]
    ELSE DefaultConfidence

confirm_musicbrainz_match(db, track_id, release, confidence, fail) ==
    record_success(db, "musicbrainz", track_id, release,
                   ResolvedConfidence(release, confidence), fail)

upsert_track(db, record, fail) ==
    Autocommit(db, TRUE, << [op |-> "upsert_track", record |-> record] >>, fail)

LinkSourceStatements(record) ==
    << [op |-> "ensure_track", track_id |-> record.track_id],
       [op |-> "upsert_soundcloud_source", track_id |-> record.track_id,
        row |-> [soundcloud_id |-> record.soundcloud_id,
                 raw_payload |-> record.raw_payload]] >>

link_soundcloud_source(db, record, fail) ==
    Autocommit(db, TRUE, LinkSourceStatements(record), fail)

sync_soundcloud_track(db, track, source, fail) ==
    Autocommit(db, TRUE,
               << [op |-> "upsert_track", record |-> track] >> \o LinkSourceStatements(source),
               fail)

record_local_asset(db, record, fail) ==
    Autocommit(db, TRUE,
        << [op |-> "ensure_track", track_id |-> record.track_id],
           [op |-> "upsert_local_asset", track_id |-> record.track_id,
            row |-> [location |-> record.location, available |-> record.available]] >>
        \o (IF IsSome(record.rekordbox_cues)
            THEN << [op |-> "upsert_rekordbox_source", track_id |-> record.track_id,
                     row |-> [raw_payload |-> record.rekordbox_cues[1]]] >>
            ELSE <<>>),
        fail)

----------------------------------------------------------------------------
(* sync_rekordbox_tracks *)

RekordboxIds == { ToString(i) : i \in 1..MaxRekordboxIds }

(* one track id for every DJ-library entry *)
MintOneTrackId(rekordbox_id) == "rekordbox:1"

(* format!("rekordbox:{}", track.rekordbox_id) *)
MintTrackId(rekordbox_id) == "rekordbox:" \o rekordbox_id

(* existing_map.get(&track.rekordbox_id).cloned().unwrap_or_else(mint) *)
ResolveTrackId(existing_map, rekordbox_id) ==
    IF rekordbox_id \in DOMAIN existing_map THEN existing_map[rekordbox_id]
    ELSE MintTrackId(rekordbox_id)

(* the statements of the loop over the incoming tracks, from the i-th on;  *)
(* existing_map is the in-memory copy of rekordbox_mappings                *)
RECURSIVE SyncTrackStatements(_, _, _)
SyncTrackStatements(incoming, existing_map, i) ==
    IF i > Len(incoming) THEN <<>>
    ELSE LET track == incoming[i]
             track_id == ResolveTrackId(existing_map, track.rekordbox_id)
         IN << [op |-> "upsert_library_track", track_id |-> track_id, title |-> track.title],
               [op |-> "upsert_mapping", rekordbox_id |-> track.rekordbox_id,
                track_id |-> track_id] >>
            \o (IF IsSome(track.location)
                THEN << [op |-> "upsert_local_asset", track_id |-> track_id,
                         row |-> [location |-> track.location[1],
                                  available |-> track.available]] >>
                ELSE <<>>)
            \o << [op |-> "upsert_rekordbox_source", track_id |-> track_id,
                   row |-> [raw_payload |-> track]] >>
            \o SyncTrackStatements(incoming, Put(existing_map, track.rekordbox_id, track_id),
                                   i + 1)

(* no mapping is taken to be stale *)
NothingStale(existing_map, incoming) == Restrict(existing_map, {})

(* stale_map: the mappings whose rekordbox_id no incoming track carries *)
StaleMap(existing_map, incoming) ==
    Restrict(existing_map,
             { r \in DOMAIN existing_map : \A i \in 1..Len(incoming) : incoming[i].rekordbox_id # r })

(* the statements of the whole method; order is the order in which the     *)
(* HashMap stale_map yields its entries                                    *)
SyncStatements(db, incoming, order) ==
    LET stale_map == StaleMap(db.rekordbox_mappings, incoming)
    IN SyncTrackStatements(incoming, db.rekordbox_mappings, 1)
       \o [i \in 1..Len(order) |-> [op |-> "delete_track", track_id |-> stale_map[order[i]]]]

(* the import whose statements run on the bare connection *)
sync_rekordbox_tracks_autocommit(db, incoming, order, fail) ==
    Autocommit(db, TRUE, SyncStatements(db, incoming, order), fail)

sync_rekordbox_tracks(db, incoming, order, fail) ==
    Transaction(db, TRUE, SyncStatements(db, incoming, order), fail)

----------------------------------------------------------------------------
(* The startup migration of legacy payloads (apply_migrations runs it      *)
(* before foreign keys are enabled)                                        *)

LegacyPayload(status, release_id, confidence, release, candidates) ==
    [status |-> status, release_id |-> release_id, confidence |-> confidence,
     release |-> release, candidates |-> candidates]

(* DiscogsMatchStatus::from_str on payload.status, Error when missing *)
DiscogsStatusFromStr(status) ==
    IF status = Some("success") THEN "success"
    ELSE IF status = Some("ambiguous") THEN "ambiguous"
    ELSE "error"

(* one row of migrate_discogs_payloads' loop *)
MigrateDiscogsRow(track_id, payload) ==
    LET status == DiscogsStatusFromStr(payload.status)
        hasRelease == status = "success" /\ IsSome(payload.release)
        release_id == IF hasRelease THEN extract_release_id(payload.release[1]) ELSE None
        confidence == IF status = "success" THEN payload.confidence ELSE None
        candidate_records ==
            IF hasRelease
            THEN << CandidateRecord(track_id, release_id,
                        IF IsSome(ScoreOf(payload.release[1]))
                        THEN ScoreOf(payload.release[1]) ELSE payload.confidence,
                        payload.release[1]) >>
            ELSE IF status = "ambiguous"
            THEN AmbiguityCandidates(track_id, payload.candidates)
            ELSE <<>>
    IN persist_discogs_match(MatchRecord(track_id, release_id, confidence, status, None),
                             candidate_records)
       \o << [op |-> "clear_payload", catalog |-> "discogs", track_id |-> track_id] >>

(* one row of migrate_musicbrainz_payloads' loop: the status string is     *)
(* stored as read, release_id starts from the payload's own release_id     *)
MigrateMusicbrainzRow(track_id, payload) ==
    LET status == IF IsSome(payload.status) THEN payload.status[1] ELSE "error"
        hasRelease == status = "success" /\ IsSome(payload.release)
        extracted_id == IF hasRelease THEN extract_release_id(payload.release[1]) ELSE None
        release_id == IF hasRelease /\ ~IsSome(payload.release_id) THEN extracted_id
                      ELSE payload.release_id
        confidence == IF status = "success"
                      THEN IF hasRelease /\ IsSome(ScoreOf(payload.release[1]))
                           THEN ScoreOf(payload.release[1]) ELSE payload.confidence
                      ELSE None
        candidate_payloads ==
            IF hasRelease
            THEN << CandidateRecord(track_id, extracted_id,
                        IF IsSome(ScoreOf(payload.release[1]))
                        THEN ScoreOf(payload.release[1]) ELSE confidence,
                        payload.release[1]) >>
            ELSE IF status = "ambiguous"
            THEN [i \in 1..Len(payload.candidates) |->
                     CandidateRecord(track_id, extract_release_id(payload.candidates[i]),
                                     ScoreOf(payload.candidates[i]), payload.candidates[i])]
            ELSE <<>>
    IN << [op |-> "upsert_match", catalog |-> "musicbrainz",
           record |-> MatchRecord(track_id, release_id, confidence, status, None)],
          [op |-> "update_summary_clear_payload", catalog |-> "musicbrainz",
           track_id |-> track_id, release_id |-> release_id, confidence |-> confidence],
          [op |-> "delete_candidates", catalog |-> "musicbrainz", match_id |-> track_id] >>
       \o InsertCandidateStatements("musicbrainz", candidate_payloads)

MigrateRow(catalog, track_id, payload) ==
    IF catalog = "discogs" THEN MigrateDiscogsRow(track_id, payload)
    ELSE MigrateMusicbrainzRow(track_id, payload)

(* the statements for the rows SELECT ... WHERE <catalog>_payload IS NOT   *)
(* NULL returns, in the order ids gives                                    *)
RECURSIVE MigrationStatements(_, _, _, _)
MigrationStatements(db, catalog, ids, i) ==
    IF i > Len(ids) THEN <<>>
    ELSE MigrateRow(catalog, ids[i], db.tracks[ids[i]][PayloadColumn(catalog)][1])
         \o MigrationStatements(db, catalog, ids, i + 1)

migrate_payloads(db, catalog) ==
    LET ids == SeqOfSet({ t \in DOMAIN db.tracks :
                            IsSome(db.tracks[t][PayloadColumn(catalog)]) })
    IN Transaction(db, FALSE, MigrationStatements(db, catalog, ids, 1), 0)

(* apply_migrations: the schema, then both migrations *)
apply_migrations(db) ==
    migrate_payloads(migrate_payloads(db, "discogs").db, "musicbrainz")

----------------------------------------------------------------------------
(* The values the calls are made with *)

(* track ids are caller-supplied strings: ids of streaming-service tracks, *)
(* and ids that read like the ones the import mints                        *)
SoundcloudTrackIds == {"sc:1"}
TrackIds == SoundcloudTrackIds \cup { MintTrackId(r) : r \in RekordboxIds }

(* release documents: a string id with a score; an integer master_id       *)
(* without score; a null id, which hides the release_id behind it          *)
ReleaseWithId == Release(JStr("r1"), JAbsent, JAbsent, Some(96))
ReleaseWithMasterId == Release(JAbsent, JAbsent, JInt(7), None)
ReleaseWithNullId == Release(JNull, JStr("r2"), JAbsent, Some(80))
Releases == {ReleaseWithId, ReleaseWithMasterId, ReleaseWithNullId}

(* the confidence a lookup reports *)
Confidences == {87}

(* legacy payloads of the tracks table's <catalog>_payload columns *)
LegacyPayloads ==
    { LegacyPayload(Some("success"), None, Some(90), Some(ReleaseWithId), <<>>),
      LegacyPayload(Some("ambiguous"), Some("r9"), Some(60), None,
                    <<ReleaseWithId, ReleaseWithNullId>>),
      LegacyPayload(Some("error"), None, None, None, <<>>),
      LegacyPayload(None, None, Some(50), None, <<>>) }

LegacyTrackIds == SoundcloudTrackIds

(* the records upsert_track is called with: by the like and playlist       *)
(* handlers, which fill in the title only, and by the command, whose       *)
(* record is the caller's                                                  *)
HandlerTrackRecords ==
    { [track_id |-> t, title |-> Some("title"),
       discogs_release_id |-> None, discogs_confidence |-> None,
       musicbrainz_release_id |-> None, musicbrainz_confidence |-> None,
       musicbrainz_payload |-> None] : t \in TrackIds }

TrackRecords ==
    HandlerTrackRecords
    \cup
    { [track_id |-> t, title |-> None,
       discogs_release_id |-> Some("r5"), discogs_confidence |-> Some(70),
       musicbrainz_release_id |-> None, musicbrainz_confidence |-> None,
       musicbrainz_payload |-> None] : t \in TrackIds }

SourceRecords ==
    { [track_id |-> t, soundcloud_id |-> "1", raw_payload |-> "liked"] : t \in TrackIds }

LocalAssetRecords ==
    { [track_id |-> t, location |-> "/music/a.mp3", available |-> TRUE,
       rekordbox_cues |-> Some("cues")] : t \in TrackIds }

(* the tracks load_tracks returns: the first entry of the DJ library has  *)
(* a file location, the others have none                                   *)
RekordboxTracks ==
    { [rekordbox_id |-> r, title |-> Some("library"),
       location |-> IF r = "1" THEN Some("/music/b.mp3") ELSE None,
       available |-> TRUE] : r \in RekordboxIds }

(* the song table's id is its key: no id comes twice in one list *)
ImportLists ==
    { incoming \in SeqsUpTo(RekordboxTracks, MaxImportLen) :
        \A i, j \in 1..Len(incoming) :
            incoming[i].rekordbox_id = incoming[j].rekordbox_id => i = j }

----------------------------------------------------------------------------
(* The state machine *)

(* the worker task of DiscogsService::new / MusicbrainzService::new before *)
(* its first job: a RateLimiter that has never waited.  last_wait is the   *)
(* time since RateLimiter.last, capped at the interval; remaining is what  *)
(* is left of a sleep; sent and responses are the requests the current job *)
(* has issued and the answers it got; outcome is what the last job ended   *)
(* with; recorded counts the record_* calls made for the current job and   *)
(* events the ambiguity events emitted for it, of which event is the last. *)
(* channel is the service's mpsc channel, senders the payloads of the      *)
(* tasks queue_lookup has spawned that have not sent yet, queued the       *)
(* number of queue_lookup calls.                                           *)
IdleWorker(catalog) ==
    [catalog |-> catalog, pc |-> "idle", jobs |-> 0, payload |-> None,
     stage |-> "none", attempts |-> 0, last_wait |-> None, gap |-> None,
     remaining |-> 0, sent |-> 0, waits |-> 0, responses |-> <<>>,
     results |-> <<>>, accepted |-> None, outcome |-> None,
     recorded |-> 0, events |-> 0, event |-> None,
     channel |-> <<>>, senders |-> <<>>, queued |-> 0]

(* AppState::new: the mutex of the library is not poisoned, RekordboxState *)
(* is the default (no watcher), no watcher task has been spawned, and the  *)
(* worker of the other catalog (worker is the one of catalog) waits for    *)
(* its first job                                                           *)
NewAppState(catalog) ==
    [poisoned |-> FALSE, watcher |-> None, tasks |-> <<>>,
     peer |-> IdleWorker(IF catalog = "discogs" THEN "musicbrainz" ELSE "discogs")]

TypeOK ==
    /\ opened \in BOOLEAN
    /\ DOMAIN tracks \subseteq TrackIds
    /\ DOMAIN rekordbox_mappings \subseteq RekordboxIds

(* A database file written by an earlier version: tracks that may carry    *)
(* legacy payloads, nothing in the normalized tables.                      *)
Init ==
    /\ opened = FALSE
    /\ \E ids \in SUBSET LegacyTrackIds :
          tracks \in [ids -> { [BareTrack EXCEPT !.discogs_payload = d,
                                                 !.musicbrainz_payload = m] :
                               d \in {None} \cup { Some(p) : p \in LegacyPayloads },
                               m \in {None} \cup { Some(p) : p \in LegacyPayloads } }]
    /\ soundcloud_sources = EmptyTable
    /\ rekordbox_sources = EmptyTable
    /\ local_assets = EmptyTable
    /\ rekordbox_mappings = EmptyTable
    /\ discogs_matches = EmptyTable
    /\ discogs_candidates = <<>>
    /\ musicbrainz_matches = EmptyTable
    /\ musicbrainz_candidates = <<>>
    /\ last = [op |-> "none", ok |-> TRUE, failed_at |-> "none"]
    /\ worker = IdleWorker("discogs")
    /\ app = NewAppState("discogs")

(* A store that was opened on a fresh file *)
OpenedStore ==
    /\ opened = TRUE
    /\ tracks = EmptyTable
    /\ soundcloud_sources = EmptyTable
    /\ rekordbox_sources = EmptyTable
    /\ local_assets = EmptyTable
    /\ rekordbox_mappings = EmptyTable
    /\ discogs_matches = EmptyTable
    /\ discogs_candidates = <<>>
    /\ musicbrainz_matches = EmptyTable
    /\ musicbrainz_candidates = <<>>
    /\ last = [op |-> "initialize", ok |-> TRUE, failed_at |-> "none"]

InitOpened == OpenedStore /\ worker = IdleWorker("discogs") /\ app = NewAppState("discogs")

(* the call returned: its result becomes the database.  last keeps the     *)
(* method, whether it returned Ok and, of a call that failed, the          *)
(* statement that failed; detail is kept of a call that returned Ok.       *)
Stores(r, method, detail) ==
    /\ Becomes(r.db)
    /\ last' = IF r.ok THEN [op |-> method, ok |-> TRUE, failed_at |-> "none"] @@ detail
               ELSE [op |-> method, ok |-> FALSE, failed_at |-> r.failed_at]
    /\ UNCHANGED opened

(* library.lock() returned Err: the caller gives up, the store is not      *)
(* called                                                                  *)
LockPoisoned(method) ==
    /\ last' = [op |-> method, ok |-> FALSE, failed_at |-> "lock"]
    /\ UNCHANGED <<opened, tracks, soundcloud_sources, rekordbox_sources, local_assets,
                   rekordbox_mappings, discogs_matches, discogs_candidates,
                   musicbrainz_matches, musicbrainz_candidates>>

(* a caller that goes on with the guard of a poisoned lock *)
ReturnsIntoInner(r, method, detail) == Stores(r, method, detail) /\ UNCHANGED <<worker, app>>

(* a call made by a command or a handler, under the lock of the library:   *)
(* the lookup worker is not involved                                       *)
Returns(r, method, detail) ==
    /\ IF app.poisoned THEN LockPoisoned(method) ELSE Stores(r, method, detail)
    /\ UNCHANGED <<worker, app>>

(* a thread panics while it holds the lock of the library: the mutex is    *)
(* poisoned from then on                                                   *)
Poison ==
    /\ ~app.poisoned
    /\ app' = [app EXCEPT !.poisoned = TRUE]
    /\ UNCHANGED <<opened, tracks, soundcloud_sources, rekordbox_sources, local_assets,
                   rekordbox_mappings, discogs_matches, discogs_candidates,
                   musicbrainz_matches, musicbrainz_candidates, last, worker>>

NoDetail == EmptyTable

(* LibraryStore::initialize: apply_migrations, then enable_foreign_keys *)
Initialize ==
    /\ ~opened
    /\ opened' = TRUE
    /\ Becomes(apply_migrations(Database).db)
    /\ last' = [op |-> "initialize", ok |-> TRUE, failed_at |-> "none"]
    /\ UNCHANGED <<worker, app>>

(* the upsert_track command; last keeps the record and the row the track   *)
(* had before the call                                                     *)
UpsertTrack(records, ids) ==
    /\ opened
    /\ \E record \in records, fail \in 0..1 :
          /\ record.track_id \in ids
          /\ Returns(upsert_track(Database, record, fail), "upsert_track",
                     [record |-> record,
                      before |-> IF record.track_id \in DOMAIN tracks
                                 THEN Some(tracks[record.track_id]) ELSE None])

(* the like and playlist handlers' store.sync_soundcloud_track, with the   *)
(* track record and the source record they build from one payload          *)
SyncSoundcloudTrack(ids) ==
    /\ opened
    /\ \E track \in HandlerTrackRecords, source \in SourceRecords, fail \in 0..3 :
          /\ track.track_id \in ids
          /\ source.track_id = track.track_id
          /\ Returns(sync_soundcloud_track(Database, track, source, fail),
                     "sync_soundcloud_track", [record |-> track])

(* the link_soundcloud_source command *)
LinkSoundcloudSource(ids) ==
    /\ opened
    /\ \E record \in SourceRecords, fail \in 0..2 :
          /\ record.track_id \in ids
          /\ Returns(link_soundcloud_source(Database, record, fail),
                     "link_soundcloud_source", NoDetail)

(* the record_local_asset command *)
RecordLocalAsset(ids) ==
    /\ opened
    /\ \E record \in LocalAssetRecords :
       \E fail \in 0..(IF IsSome(record.rekordbox_cues) THEN 3 ELSE 2) :
          /\ record.track_id \in ids
          /\ Returns(record_local_asset(Database, record, fail),
                     "record_local_asset", NoDetail)

(* process_job on Ok(LookupResult::Success) *)
RecordSuccess(catalogs, ids, releases, fails) ==
    /\ opened
    /\ \E catalog \in catalogs, track_id \in ids, release \in releases,
          confidence \in Confidences, fail \in fails :
          Returns(record_success(Database, catalog, track_id, release, confidence, fail),
                  "record_success", NoDetail)

(* process_job on Ok(LookupResult::Ambiguous) *)
RecordAmbiguity(catalogs, ids, releases, fails) ==
    /\ opened
    /\ \E catalog \in catalogs, track_id \in ids,
          candidates \in SeqsUpTo(releases, MaxCandidates), fail \in fails :
          Returns(record_ambiguity(Database, catalog, track_id, candidates, fail),
                  "record_ambiguity", NoDetail)

(* process_job on Err(failure), and on an empty query; last keeps the      *)
(* number of candidate rows the track had before the call (had)            *)
RecordFailure(catalogs, ids, fails) ==
    /\ opened
    /\ \E catalog \in catalogs, track_id \in ids, fail \in fails :
          Returns(record_failure(Database, catalog, track_id, "no releases found", fail),
                  "record_failure",
                  [catalog |-> catalog, track_id |-> track_id,
                   had |-> Len(SelectSeq(Database[CandidatesTable(catalog)],
                                 LAMBDA row : row.match_id = track_id))])

(* the confirm_musicbrainz_match command *)
ConfirmMusicbrainzMatch(ids, releases, fails) ==
    /\ opened
    /\ \E track_id \in ids, release \in releases,
          confidence \in {None} \cup { Some(c) : c \in Confidences }, fail \in fails :
          Returns(confirm_musicbrainz_match(Database, track_id, release, confidence, fail),
                  "confirm_musicbrainz_match", NoDetail)

(* the tables that hold rows of a track besides tracks itself *)
DependentTables(db, track_id) ==
    { table \in {"soundcloud_sources", "rekordbox_sources", "local_assets",
                 "discogs_matches", "musicbrainz_matches"} : track_id \in DOMAIN db[table] }
    \cup { CandidatesTable(catalog) : catalog \in
             { c \in Catalogs : \E i \in 1..Len(db[CandidatesTable(c)]) :
                                   db[CandidatesTable(c)][i].match_id = track_id } }

(* import_rekordbox_library and the watcher's refresh; last keeps the ids  *)
(* imported (ids), the tracks whose mapping was stale (stale), whether the *)
(* ids were exactly the ids already mapped (again) and the tables that     *)
(* held rows of a stale track before the call (cascaded)                   *)
SyncRekordboxTracks ==
    /\ opened
    /\ \E incoming \in ImportLists :
       \E order \in Orderings(DOMAIN StaleMap(rekordbox_mappings, incoming)) :
       \E fail \in 0..Len(SyncStatements(Database, incoming, order)) :
          LET stale == { rekordbox_mappings[order[i]] : i \in 1..Len(order) }
          IN Returns(sync_rekordbox_tracks(Database, incoming, order, fail),
                     "sync_rekordbox_tracks",
                     [ids |-> { incoming[i].rekordbox_id : i \in 1..Len(incoming) },
                      stale |-> stale,
                      again |-> DOMAIN rekordbox_mappings
                                  = { incoming[i].rekordbox_id : i \in 1..Len(incoming) },
                      cascaded |-> UNION { DependentTables(Database, t) : t \in stale }])

(* record_discogs_match / record_musicbrainz_match called with any record  *)
(* and any candidates, also candidates that name another track; last keeps *)
(* the candidates passed for the record's track (own) and the number of    *)
(* candidate rows the track had before the call (had)                      *)
MatchRecords(ids) ==
    { MatchRecord(t, Some("r1"), Some(87), "success", None) : t \in ids }
    \cup { AmbiguityRecord(t) : t \in ids }
    \cup { FailureRecord(t, "rate limited") : t \in ids }

CandidateRecords(ids) ==
    { CandidateRecord(t, extract_release_id(release), ScoreOf(release), release) :
        t \in ids, release \in {ReleaseWithId} }

(* the candidates of one call are distinct releases *)
CandidateLists(ids) ==
    { candidates \in SeqsUpTo(CandidateRecords(ids), MaxCandidates) :
        \A i, j \in 1..Len(candidates) : candidates[i] = candidates[j] => i = j }

RecordMatch(catalog, ids) ==
    /\ opened
    /\ \E record \in MatchRecords(ids),
          candidates \in CandidateLists(ids) :
       \E fail \in 0..Len(persist_match(catalog, record, candidates)) :
          LET r == record_match(Database, catalog, record, candidates, fail)
          IN /\ Len(r.db[CandidatesTable(catalog)]) <= MaxCandidateRows
             /\ Returns(r, "record_match",
                        [catalog |-> catalog, record |-> record,
                         own |-> SelectSeq(candidates,
                                           LAMBDA c : c.match_id = record.track_id),
                         had |-> Len(SelectSeq(Database[CandidatesTable(catalog)],
                                       LAMBDA row : row.match_id = record.track_id))])

----------------------------------------------------------------------------
(* The lookup clients (discogs.rs, musicbrainz.rs): the verdict on a       *)
(* search response                                                         *)

(* the thresholds and limits of the two clients *)
ConfidentScore == 85
ConfidentMargin == 10
HighConfidence == 95
ScoreCeiling == 100
CandidateLimit == 5
MAX_ATTEMPTS == 3

(* a search result: SearchResult of discogs.rs, or one element of the      *)
(* "releases" array of a MusicBrainz response, of which only id and score  *)
(* are read                                                                *)
SearchResult(id, score, is_release, has_url) ==
    [id |-> id, score |-> score, is_release |-> is_release, has_url |-> has_url]

(* the key the Discogs client sorts by: Option<f32>, None below every Some *)
DiscogsSortKey(result) == IF IsSome(result.score) THEN result.score[1] ELSE -1

(* the key the MusicBrainz client sorts by: the score, 0.0 when missing *)
MusicbrainzSortKey(result) == IF IsSome(result.score) THEN result.score[1] ELSE 0

(* sort_by(|a, b| b.key.partial_cmp(&a.key)): stable, descending; keys is  *)
(* the sequence of the elements' keys                                      *)
RECURSIVE InsertDescending(_, _, _, _)
InsertDescending(sorted, sorted_keys, element, key) ==
    IF sorted = <<>> THEN <<element>>
    ELSE IF Head(sorted_keys) >= key
         THEN <<Head(sorted)>>
              \o InsertDescending(Tail(sorted), Tail(sorted_keys), element, key)
         ELSE <<element>> \o sorted

RECURSIVE SortDescending(_, _)
SortDescending(elements, keys) ==
    IF elements = <<>> THEN <<>>
    ELSE LET n == Len(elements)
             front == SortDescending(SubSeq(elements, 1, n - 1), SubSeq(keys, 1, n - 1))
             front_keys == SortDescending(SubSeq(keys, 1, n - 1), SubSeq(keys, 1, n - 1))
         IN InsertDescending(front, front_keys, elements[n], keys[n])

(* into_iter().take(5) / truncate(5) *)
Take(s, n) == SubSeq(s, 1, IF Len(s) < n THEN Len(s) ELSE n)

ScoreOr(results, i, default) ==
    IF i <= Len(results) /\ IsSome(results[i].score) THEN results[i].score[1] ELSE default

Failure(message) == [kind |-> "failure", message |-> message]
Ambiguous(candidates) == [kind |-> "ambiguous", candidates |-> candidates]
Success(release, confidence) ==
    [kind |-> "success", release |-> release, confidence |-> confidence]

(* discogs.rs perform_lookup, from the parsed body on: the results that    *)
(* are releases with a resource_url, sorted; "accept" stands for the       *)
(* branch that goes on to fetch the release document                       *)
DiscogsFiltered(results) ==
    SelectSeq(results, LAMBDA result : result.is_release /\ result.has_url)

DiscogsVerdict(results) ==
    LET filtered == DiscogsFiltered(results)
        sorted == SortDescending(filtered,
                      [i \in 1..Len(filtered) |-> DiscogsSortKey(filtered[i])])
        top_score == ScoreOr(sorted, 1, 0)
        second_score == ScoreOr(sorted, 2, 0)
    IN IF sorted = <<>> THEN Failure("no releases found")
       ELSE IF Len(sorted) = 1
               \/ (top_score >= ConfidentScore /\ top_score - second_score >= ConfidentMargin)
            THEN [kind |-> "accept", release |-> sorted[1], confidence |-> top_score]
            ELSE Ambiguous(Take(sorted, CandidateLimit))

(* musicbrainz.rs interpret_lookup on the "releases" array *)
interpret_lookup(releases) ==
    LET sorted == SortDescending(releases,
                      [i \in 1..Len(releases) |-> MusicbrainzSortKey(releases[i])])
        first_score == MusicbrainzSortKey(sorted[1])
        best_score == IF first_score <= 0 THEN ScoreCeiling ELSE first_score
        second_score == ScoreOr(sorted, 2, 0)
        is_confident == \/ Len(sorted) = 1
                        \/ best_score >= HighConfidence
                        \/ (best_score >= ConfidentScore
                               /\ best_score - second_score >= ConfidentMargin)
    IN IF releases = <<>> THEN Failure("MusicBrainz returned no releases")
       ELSE IF is_confident THEN Success(sorted[1], best_score)
       ELSE Ambiguous(Take(sorted, CandidateLimit))

----------------------------------------------------------------------------

(* The lookup clients: the query of a job *)

(* the strings of a payload are blank, or have no white space around them  *)
(* and no quote in them: trim() and replace('"', "\\\"") leave the latter  *)
BlankStrings == {"", " "}

Trim(str) == IF str \in BlankStrings THEN "" ELSE str

RECURSIVE Join(_, _)
Join(terms, separator) ==
    IF terms = <<>> THEN ""
    ELSE IF Len(terms) = 1 THEN terms[1]
    ELSE terms[1] \o separator \o Join(Tail(terms), separator)

(* the non-blank term of an Option<String>, trimmed *)
normalize_term(value) ==
    IF IsSome(value) /\ Trim(value[1]) # "" THEN Some(Trim(value[1])) ELSE None

(* tag.to_lowercase().contains("album:") *)
AlbumTags == {"album:x", "Album: y"}

FirstAlbumTag(tags) ==
    LET found == SelectSeq(tags, LAMBDA tag : tag \in AlbumTags)
    IN IF found = <<>> THEN None ELSE Some(found[1])

(* discogs.rs build_search_term *)
build_search_term(payload) ==
    Join((IF IsSome(normalize_term(payload.artist))
          THEN <<normalize_term(payload.artist)[1]>> ELSE <<>>)
         \o (IF IsSome(normalize_term(payload.title))
             THEN <<normalize_term(payload.title)[1]>> ELSE <<>>), " ")

(* musicbrainz.rs build_search_query *)
build_search_query(payload) ==
    Join((IF IsSome(normalize_term(payload.artist))
          THEN <<"artist:\"" \o normalize_term(payload.artist)[1] \o "\"">> ELSE <<>>)
         \o (IF IsSome(normalize_term(payload.title))
             THEN <<"recording:\"" \o normalize_term(payload.title)[1] \o "\"">> ELSE <<>>)
         \o (IF IsSome(normalize_term(FirstAlbumTag(payload.tags)))
             THEN <<"release:\"" \o normalize_term(FirstAlbumTag(payload.tags))[1] \o "\"">>
             ELSE <<>>), " AND ")

QueryOf(catalog, payload) ==
    IF catalog = "discogs" THEN build_search_term(payload) ELSE build_search_query(payload)

(* the payloads queue_lookup is called with: a full one, one without a     *)
(* usable title or artist, one that has an album tag only, one without a   *)
(* track id                                                                *)
Payload(track_id, artist, title, tags) ==
    [track_id |-> track_id, artist |-> artist, title |-> title, tags |-> tags]

FullPayload == Payload("sc:1", Some("artist"), Some("title"), <<"house">>)
BlankPayload == Payload("sc:1", None, Some(" "), <<"house">>)
AlbumOnlyPayload == Payload("sc:1", Some(""), None, <<"house", "album:x">>)
AnonymousPayload == Payload("", Some("artist"), Some("title"), <<>>)
Payloads == {FullPayload, BlankPayload, AlbumOnlyPayload, AnonymousPayload}

----------------------------------------------------------------------------
(* The lookup worker: RateLimiter::wait, perform_lookup and process_job,   *)
(* one step per await                                                      *)

(* RateLimiter::new(Duration::from_millis(1100)) *)
Interval == 1100

(* Duration::from_secs(5), the retry delay without a Retry-After header *)
DefaultRetryAfterSecs == 5

MillisPerSec == 1000

(* the amounts by which time advances in one step *)
Ticks == {Interval \div 2, Interval, DefaultRetryAfterSecs * MillisPerSec}

Min(a, b) == IF a < b THEN a ELSE b
Max(a, b) == IF a > b THEN a ELSE b

(* time passes: last.elapsed() grows (it is followed up to the interval,   *)
(* beyond which wait() does not tell it apart) and a sleep gets shorter    *)
Elapse(w, d) ==
    [w EXCEPT !.last_wait = IF IsSome(@) THEN Some(Min(Interval, @[1] + d)) ELSE @,
              !.remaining = Max(0, @ - d)]

(* the results a search response can hold *)
Scores == {None, Some(0), Some(80), Some(90), Some(96)}

SearchResults ==
    { SearchResult(IF IsSome(score) THEN Some(score[1] + 1) ELSE None, score, TRUE, TRUE) :
        score \in Scores }
    \cup { SearchResult(Some(9), Some(99), FALSE, TRUE) }

(* a body with more results than a client hands on *)
LongResults == [i \in 1..(CandidateLimit + 1) |-> SearchResult(Some(i), Some(80), TRUE, TRUE)]

Bodies == SeqsUpTo(SearchResults, MaxResults) \cup {LongResults}

(* what comes back for a search request: status 0 stands for a transport   *)
(* error; a 200 without results for a body that does not parse            *)
Response(status, retry_after, results) ==
    [status |-> status, retry_after |-> retry_after, results |-> results]

SearchResponses ==
    { Response(status, None, None) : status \in {0, 200, 401, 403, 404, 500, 429, 503} }
    \cup { Response(429, Some(1), None) }
    \cup { Response(200, None, Some(results)) : results \in Bodies }

(* what comes back for the request of a Discogs release document: a        *)
(* transport error, or a JSON document whatever the status                 *)
DetailResponses == {None} \cup { Some(release) : release \in {ReleaseWithId, ReleaseWithNullId} }

(* the JSON document of a result: a MusicBrainz release as received, a     *)
(* Discogs candidate as json!({"id": result.id, "score": result.score})    *)
ResultDocument(catalog, result) ==
    Release(IF IsSome(result.id)
            THEN (IF catalog = "discogs" THEN JInt(result.id[1])
                  ELSE JStr(ToString(result.id[1])))
            ELSE (IF catalog = "discogs" THEN JNull ELSE JAbsent),
            JAbsent, JAbsent, result.score)

(* a worker that drops the failure of a lookup *)
PersistUnlessFailure(w, outcome, fail) ==
    LET track_id == w.payload[1].track_id
    IN CASE outcome.kind = "success" ->
              Stores(record_success(Database, w.catalog, track_id, outcome.release,
                                    outcome.confidence, fail),
                     "record_success", NoDetail)
         [] outcome.kind = "ambiguous" ->
              Stores(record_ambiguity(Database, w.catalog, track_id,
                                      [i \in 1..Len(outcome.candidates) |->
                                          ResultDocument(w.catalog, outcome.candidates[i])],
                                      fail),
                     "record_ambiguity", NoDetail)
         [] OTHER ->
              Stores([db |-> Database, ok |-> TRUE, failed_at |-> "none"], "none", NoDetail)

(* process_job's match on the result of perform_lookup: the store method   *)
(* it calls                                                                *)
Persist(w, outcome, fail) ==
    LET track_id == w.payload[1].track_id
    IN CASE outcome.kind = "success" ->
              Stores(record_success(Database, w.catalog, track_id, outcome.release,
                                    outcome.confidence, fail),
                     "record_success", NoDetail)
         [] outcome.kind = "ambiguous" ->
              Stores(record_ambiguity(Database, w.catalog, track_id,
                                      [i \in 1..Len(outcome.candidates) |->
                                          ResultDocument(w.catalog, outcome.candidates[i])],
                                      fail),
                     "record_ambiguity", NoDetail)
         [] OTHER ->
              Stores(record_failure(Database, w.catalog, track_id, outcome.message, fail),
                     "record_failure", NoDetail)

(* the job goes on: the store is not touched *)
Continue(w) ==
    /\ worker' = w
    /\ UNCHANGED <<opened, tracks, soundcloud_sources, rekordbox_sources, local_assets,
                   rekordbox_mappings, discogs_matches, discogs_candidates,
                   musicbrainz_matches, musicbrainz_candidates, last, app>>

(* perform_lookup returns, or process_job has found the query empty: next  *)
(* process_job takes the lock of the library                               *)
Finish(w, outcome) ==
    Continue([w EXCEPT !.pc = "persist", !.stage = "none", !.remaining = 0,
                       !.outcome = Some(outcome)])

(* the event process_job emits after record_*_ambiguity: trackId, query    *)
(* and candidates                                                          *)
AmbiguityEvent(w) ==
    [track_id |-> w.payload[1].track_id, query |-> QueryOf(w.catalog, w.payload[1]),
     candidates |-> w.outcome[1].candidates]

(* a worker that emits the event whatever the result was *)
RecordedWithEvent(w) ==
    [w EXCEPT !.pc = "idle", !.recorded = @ + 1, !.events = @ + 1,
              !.event = Some([track_id |-> w.payload[1].track_id,
                              query |-> QueryOf(w.catalog, w.payload[1]),
                              candidates |-> <<>>])]

(* the worker after process_job's match: one record_* call, an event when  *)
(* the result was Ambiguous, and back to receiver.recv()                   *)
Recorded(w) ==
    IF w.outcome[1].kind = "ambiguous"
    THEN [w EXCEPT !.pc = "idle", !.recorded = @ + 1, !.events = @ + 1,
                   !.event = Some(AmbiguityEvent(w))]
    ELSE [w EXCEPT !.pc = "idle", !.recorded = @ + 1]

(* process_job takes the lock: the outcome is handed to the store, or to   *)
(* nobody when the lock is poisoned, and the worker goes back to           *)
(* receiver.recv()                                                         *)
Record(fails) ==
    /\ worker.pc = "persist"
    /\ IF app.poisoned
       THEN /\ worker' = [Recorded(worker) EXCEPT !.recorded = worker.recorded]
            /\ LockPoisoned("process_job")
       ELSE /\ worker' = Recorded(worker)
            /\ \E fail \in fails : Persist(worker, worker.outcome[1], fail)
    /\ UNCHANGED app

(* a worker that looks up whatever query it has built *)
ReceiveJobAndLookUp(payloads) ==
    /\ opened
    /\ worker.pc = "idle"
    /\ worker.jobs < MaxJobs
    /\ \E payload \in payloads :
          Continue([worker EXCEPT !.jobs = @ + 1, !.payload = Some(payload),
                                  !.attempts = 0, !.sent = 0, !.waits = 0,
                                  !.responses = <<>>, !.results = <<>>,
                                  !.accepted = None, !.outcome = None,
                                  !.recorded = 0, !.events = 0, !.event = None,
                                  !.pc = "wait", !.stage = "search"])

(* the body of the worker's loop for the payload recv() has yielded to     *)
(* worker w0.  An empty track id: continue.  An empty query:               *)
(* record_*_failure and return.  Else perform_lookup starts.               *)
Dispatch(w0, payload) ==
    LET w == [w0 EXCEPT !.jobs = @ + 1, !.payload = Some(payload),
                        !.attempts = 0, !.sent = 0, !.waits = 0,
                        !.responses = <<>>, !.results = <<>>,
                        !.accepted = None, !.outcome = None,
                        !.recorded = 0, !.events = 0, !.event = None]
    IN IF payload.track_id = ""
       THEN Continue([w EXCEPT !.outcome = Some([kind |-> "skipped"])])
       ELSE IF Trim(QueryOf(w.catalog, payload)) = ""
       THEN Finish(w, Failure("missing title or artist"))
       ELSE Continue([w EXCEPT !.pc = "wait", !.stage = "search"])

(* receiver.recv() yields a job, whatever was sent *)
ReceiveJob(payloads) ==
    /\ opened
    /\ worker.pc = "idle"
    /\ worker.jobs < MaxJobs
    /\ \E payload \in payloads : Dispatch(worker, payload)

(* the capacity of mpsc::channel *)
ChannelCapacity == 32

(* queue_lookup: a task is spawned that will send the payload *)
QueueLookup(payloads, bound) ==
    /\ worker.queued < bound
    /\ \E payload \in payloads :
          Continue([worker EXCEPT !.senders = Append(@, payload), !.queued = @ + 1])

RemoveAt(s, i) == SubSeq(s, 1, i - 1) \o SubSeq(s, i + 1, Len(s))

(* a sender that gives up on a full channel, as try_send would *)
SendOrDiscard ==
    \E i \in 1..Len(worker.senders) :
        Continue([worker EXCEPT
                    !.channel = IF Len(@) < ChannelCapacity
                                THEN Append(@, worker.senders[i]) ELSE @,
                    !.senders = RemoveAt(@, i)])

(* sender.send(payload).await of one of the spawned tasks completes: the   *)
(* channel has a free slot.  On a full channel the task stays suspended.   *)
Send ==
    \E i \in 1..Len(worker.senders) :
        /\ Len(worker.channel) < ChannelCapacity
        /\ Continue([worker EXCEPT !.channel = Append(@, worker.senders[i]),
                                   !.senders = RemoveAt(@, i)])

(* a worker that takes the next payload while a job is in hand *)
DequeueWhileBusy ==
    /\ opened
    /\ worker.channel # <<>>
    /\ Dispatch([worker EXCEPT !.channel = Tail(@)], Head(worker.channel))

(* receiver.recv().await of the worker's loop yields the oldest payload of *)
(* the channel: the worker is at the top of its loop                       *)
Dequeue ==
    /\ opened
    /\ worker.pc = "idle"
    /\ worker.channel # <<>>
    /\ Dispatch([worker EXCEPT !.channel = Tail(@)], Head(worker.channel))

(* a wait() that does not sleep *)
LimiterWaitWithoutSleep ==
    /\ worker.pc = "wait"
    /\ Continue([worker EXCEPT
                   !.waits = @ + 1,
                   !.attempts = IF worker.catalog = "musicbrainz" THEN @ + 1 ELSE @,
                   !.pc = "send", !.gap = worker.last_wait, !.last_wait = Some(0),
                   !.remaining = 0])

(* rate_limiter.wait() is called: it returns at once, or sleeps for what   *)
(* is left of the interval.  MusicBrainz' loop has counted the attempt.    *)
WaitReturned(w) ==
    [w EXCEPT !.pc = "send", !.gap = w.last_wait, !.last_wait = Some(0), !.remaining = 0]

LimiterWait ==
    /\ worker.pc = "wait"
    /\ LET w == [worker EXCEPT
                   !.waits = @ + 1,
                   !.attempts = IF worker.catalog = "musicbrainz" THEN @ + 1 ELSE @]
       IN IF IsSome(w.last_wait) /\ w.last_wait[1] < Interval
          THEN Continue([w EXCEPT !.pc = "limiter_sleep",
                                  !.remaining = Interval - w.last_wait[1]])
          ELSE Continue(WaitReturned(w))

(* the sleep of wait() is over: self.last = Some(Instant::now()) *)
LimiterWake ==
    /\ worker.pc = "limiter_sleep"
    /\ worker.remaining = 0
    /\ Continue(WaitReturned(worker))

(* time passes, for the tasks of both catalogs *)
Tick ==
    /\ \E d \in Ticks :
          /\ worker' = Elapse(worker, d)
          /\ app' = [app EXCEPT !.peer = Elapse(@, d)]
    /\ <<worker, app>>' # <<worker, app>>
    /\ UNCHANGED <<opened, tracks, soundcloud_sources, rekordbox_sources, local_assets,
                   rekordbox_mappings, discogs_matches, discogs_candidates,
                   musicbrainz_matches, musicbrainz_candidates, last>>

(* the runtime turns to the worker task of the other catalog: worker is    *)
(* the task that is followed, peer the other one                           *)
Switch ==
    /\ worker' = app.peer
    /\ app' = [app EXCEPT !.peer = worker]
    /\ UNCHANGED <<opened, tracks, soundcloud_sources, rekordbox_sources, local_assets,
                   rekordbox_mappings, discogs_matches, discogs_candidates,
                   musicbrainz_matches, musicbrainz_candidates, last>>

(* perform_lookup of discogs.rs after send(): a transport error, a status  *)
(* that is not a success, a body that does not parse, or the verdict       *)
DiscogsResponded(w, response) ==
    IF response.status = 0 THEN Finish(w, Failure("request failed"))
    ELSE IF response.status # 200 THEN Finish(w, Failure("search returned status"))
    ELSE IF response.results = None THEN Finish(w, Failure("invalid response payload"))
    ELSE LET verdict == DiscogsVerdict(response.results[1])
         IN IF verdict.kind = "accept"
            THEN Continue([w EXCEPT !.pc = "wait", !.stage = "detail",
                                    !.accepted = Some(verdict)])
            ELSE Finish(w, verdict)

(* the retry delay: Retry-After in seconds, else five seconds *)
RetryAfterMillis(response) ==
    (IF IsSome(response.retry_after) THEN response.retry_after[1] ELSE DefaultRetryAfterSecs)
        * MillisPerSec

(* a client that takes another attempt after a transport error *)
MusicbrainzRespondedRetryingErrors(w, response) ==
    IF response.status = 200 /\ response.results # None
    THEN Finish(w, Failure("MusicBrainz returned no releases"))
    ELSE IF w.attempts >= MAX_ATTEMPTS
    THEN Finish(w, Failure("request failed"))
    ELSE Continue([w EXCEPT !.pc = "wait"])

(* perform_lookup of musicbrainz.rs after send(): the match on the status *)
MusicbrainzResponded(w, response) ==
    IF response.status = 0 THEN Finish(w, Failure("request failed"))
    ELSE IF response.status = 200
    THEN IF response.results = None
         THEN Finish(w, Failure("invalid response payload"))
         ELSE LET verdict == interpret_lookup(response.results[1])
              IN Finish(w, IF verdict.kind = "success"
                           THEN Success(ResultDocument("musicbrainz", verdict.release),
                                        verdict.confidence)
                           ELSE verdict)
    ELSE IF response.status \in {429, 503}
    THEN Continue([w EXCEPT !.pc = "retry_sleep", !.remaining = RetryAfterMillis(response)])
    ELSE IF response.status \in {401, 403}
    THEN Finish(w, Failure("unauthorized MusicBrainz request"))
    ELSE IF response.status = 404
    THEN Finish(w, Failure("no releases found for track"))
    ELSE Finish(w, Failure("unexpected MusicBrainz status"))

(* the search request is sent and answered *)
SearchResponded(responses) ==
    /\ worker.pc = "send"
    /\ worker.stage = "search"
    /\ \E response \in responses :
          LET w == [worker EXCEPT !.sent = @ + 1,
                                  !.responses = Append(@, response.status),
                                  !.results = IF IsSome(response.results)
                                              THEN response.results[1] ELSE <<>>]
          IN IF worker.catalog = "discogs"
             THEN DiscogsResponded(w, response)
             ELSE MusicbrainzResponded(w, response)

(* a loop that gives up one attempt later *)
RetryOnceMore ==
    /\ worker.pc = "retry_sleep"
    /\ worker.remaining = 0
    /\ IF worker.attempts >= MAX_ATTEMPTS + 1
       THEN Finish(worker, Failure("rate limited by MusicBrainz"))
       ELSE Continue([worker EXCEPT !.pc = "wait"])

(* sleep(retry_after) is over: the last attempt gives up, an earlier one   *)
(* goes round the loop                                                     *)
RetrySleepDone ==
    /\ worker.pc = "retry_sleep"
    /\ worker.remaining = 0
    /\ IF worker.attempts >= MAX_ATTEMPTS
       THEN Finish(worker, Failure("rate limited by MusicBrainz"))
       ELSE Continue([worker EXCEPT !.pc = "wait"])

(* the request of the release document is sent and answered *)
DetailResponded ==
    /\ worker.pc = "send"
    /\ worker.stage = "detail"
    /\ \E response \in DetailResponses :
          LET w == [worker EXCEPT !.sent = @ + 1,
                                  !.responses = Append(@, IF IsSome(response) THEN 200 ELSE 0)]
          IN IF IsSome(response)
             THEN Finish(w, Success(response[1], worker.accepted[1].confidence))
             ELSE Finish(w, Failure("request failed"))

----------------------------------------------------------------------------
(* Specifications *)

SharedTrackId == MintTrackId("1")

(* The whole store: the commands, the lookup outcomes and the import.      *)
(* upsert_track names sc:1; the source link, the local asset and the       *)
(* lookup outcomes name rekordbox:1, the id the import mints for the first *)
(* DJ-library entry.                                                       *)
Next ==
    \/ UpsertTrack(HandlerTrackRecords, SoundcloudTrackIds)
    \/ LinkSoundcloudSource({SharedTrackId})
    \/ RecordLocalAsset({SharedTrackId})
    \/ RecordAmbiguity({"discogs"}, {SharedTrackId}, {ReleaseWithId}, {0})
    \/ RecordFailure({"musicbrainz"}, {SharedTrackId}, {0})
    \/ SyncRekordboxTracks

Spec == InitOpened /\ [][Next]_vars

(* Startup on a legacy database, then the outcomes of lookups for one      *)
(* track in both catalogs.                                                 *)
NextOutcomes ==
    \/ Initialize
    \/ RecordSuccess(Catalogs, SoundcloudTrackIds, Releases, {0, 5})
    \/ RecordAmbiguity(Catalogs, SoundcloudTrackIds, Releases, {0, 5})
    \/ RecordFailure(Catalogs, SoundcloudTrackIds, {0, 4})
    \/ ConfirmMusicbrainzMatch(SoundcloudTrackIds, Releases, {0, 5})

SpecOutcomes == Init /\ [][NextOutcomes]_vars

(* Ingestion of streaming-service tracks: the like and playlist handlers   *)
(* and the two commands they are composed of, on every track id.           *)
NextIngest ==
    \/ UpsertTrack(TrackRecords, TrackIds)
    \/ LinkSoundcloudSource(TrackIds)
    \/ SyncSoundcloudTrack(TrackIds)

SpecIngest == InitOpened /\ [][NextIngest]_vars

(* record_match on two tracks.  A behaviour writes to one catalog: the     *)
(* catalogs share nothing but the tracks row that both ensure.             *)
OtherCatalog(catalog) == IF catalog = "discogs" THEN "musicbrainz" ELSE "discogs"

MatchTrackIds == SoundcloudTrackIds \cup {SharedTrackId}

NextRecordMatch ==
    \E catalog \in Catalogs :
        /\ Database[MatchesTable(OtherCatalog(catalog))] = EmptyTable
        /\ RecordMatch(catalog, MatchTrackIds)

SpecRecordMatch == InitOpened /\ [][NextRecordMatch]_vars

(* the lookup workers on a store that holds the track of the jobs: each    *)
(* catalog's worker is the same loop with its own client                   *)
NoFailure == {0}

InitLookup ==
    /\ OpenedStore
    /\ \E catalog \in Catalogs : worker = IdleWorker(catalog) /\ app = NewAppState(catalog)

(* the answers to a search the worker is followed through: every status,   *)
(* and the bodies with at most one result or with more than are handed on  *)
ShortSearchResponses ==
    { response \in SearchResponses :
        \/ response.results = None
        \/ Len(response.results[1]) <= 1
        \/ response.results[1] = LongResults }

NextLookup ==
    \/ UpsertTrack(HandlerTrackRecords, SoundcloudTrackIds)
    \/ ReceiveJob(Payloads)
    \/ LimiterWait
    \/ LimiterWake
    \/ Tick
    \/ SearchResponded(ShortSearchResponses)
    \/ RetrySleepDone
    \/ DetailResponded
    \/ Record(NoFailure)

SpecLookup == InitLookup /\ [][NextLookup]_vars

(* the verdict of the clients on every search response that parses: the    *)
(* worker is followed through jobs whose search is answered with a body    *)
ParsedSearchResponses == { response \in SearchResponses : response.results # None }

(* the store when the worker receives the job of a track: the handler has  *)
(* synced the track before it queued the lookup                            *)
SyncedTrack == CHOOSE record \in HandlerTrackRecords : record.track_id = FullPayload.track_id

InitVerdict ==
    /\ opened = TRUE
    /\ tracks = UpsertTrackRow([tracks |-> EmptyTable], SyncedTrack).db.tracks
    /\ soundcloud_sources = EmptyTable
    /\ rekordbox_sources = EmptyTable
    /\ local_assets = EmptyTable
    /\ rekordbox_mappings = EmptyTable
    /\ discogs_matches = EmptyTable
    /\ discogs_candidates = <<>>
    /\ musicbrainz_matches = EmptyTable
    /\ musicbrainz_candidates = <<>>
    /\ last = [op |-> "sync_soundcloud_track", ok |-> TRUE, failed_at |-> "none",
               record |-> SyncedTrack]
    /\ \E catalog \in Catalogs : worker = IdleWorker(catalog) /\ app = NewAppState(catalog)

NextVerdict ==
    \/ ReceiveJob({FullPayload})
    \/ LimiterWait
    \/ LimiterWake
    \/ Tick
    \/ SearchResponded(ParsedSearchResponses)
    \/ DetailResponded
    \/ Record(NoFailure)

SpecVerdict == InitVerdict /\ [][NextVerdict]_vars

(* the MusicBrainz worker and a server that may answer with any status:    *)
(* the runtime polls the task in perform_lookup whenever it can go on,     *)
(* every request is answered, and time passes                              *)
StatusResponses == { response \in SearchResponses : response.status # 200 }

InitRetry == InitVerdict /\ worker.catalog = "musicbrainz"

RetryStep ==
    \/ LimiterWait
    \/ LimiterWake
    \/ SearchResponded(StatusResponses)
    \/ RetrySleepDone

NextRetry ==
    \/ ReceiveJob({FullPayload})
    \/ Tick
    \/ RetryStep
    \/ Record(NoFailure)

SpecRetry == InitRetry /\ [][NextRetry]_vars

FairRetry == SpecRetry /\ WF_vars(RetryStep) /\ WF_vars(Tick)

----------------------------------------------------------------------------
(* Properties of record_match, checked under SpecRecordMatch *)

(* what the store holds of one track in one catalog: the match row, the    *)
(* summary columns of the tracks row, the candidate rows                   *)
MatchState(db, catalog, track_id) ==
    [match |-> IF track_id \in DOMAIN db[MatchesTable(catalog)]
               THEN Some(db[MatchesTable(catalog)][track_id]) ELSE None,
     summary |-> IF track_id \in DOMAIN db.tracks
                 THEN Some(<<db.tracks[track_id][ReleaseIdColumn(catalog)],
                             db.tracks[track_id][ConfidenceColumn(catalog)]>>)
                 ELSE None,
     candidates |-> SelectSeq(db[CandidatesTable(catalog)],
                              LAMBDA row : row.match_id = track_id)]

(* what a call of record_match is to leave of its track in its catalog *)
NewMatchState(record, own) ==
    [match |-> Some([release_id |-> record.release_id, confidence |-> record.confidence,
                     status |-> record.status, message |-> record.message]),
     summary |-> Some(<<record.release_id, record.confidence>>),
     candidates |-> own]

(* C1: record_match is atomic in either catalog.  A call that fails at any *)
(* of its statements leaves every table as it was before the call, so the  *)
(* track's match row, summary and candidates are the old ones; a call that *)
(* returns Ok leaves exactly the new match row, the new summary and the    *)
(* candidates passed for the track.                                        *)
RecordMatchAtomic ==
    [][ last'.op = "record_match" =>
          IF last'.ok
          THEN MatchState(Database', last'.catalog, last'.record.track_id)
                  = NewMatchState(last'.record, last'.own)
          ELSE Database' = Database ]_vars

(* a call failed at a candidate insert, after the match row, the summary   *)
(* and the delete had run over a track that had candidates                 *)
RecordMatchRolledBack ==
    /\ last.op = "record_match"
    /\ ~last.ok
    /\ last.failed_at = "insert_candidate"
    /\ \E catalog \in Catalogs : Len(Database[CandidatesTable(catalog)]) > 0

(* C5: after record_match commits, the candidate rows stored for the       *)
(* record's track are the candidates passed in this call for it, in the    *)
(* order passed: no row of an earlier match of the track survives.         *)
CandidatesReplaced ==
    [][ last'.op = "record_match" /\ last'.ok =>
          /\ MatchState(Database', last'.catalog, last'.record.track_id).candidates
                = last'.own
          /\ \A i \in 1..Len(Database'[CandidatesTable(last'.catalog)]) :
                LET row == Database'[CandidatesTable(last'.catalog)][i]
                IN row.match_id = last'.record.track_id
                      => \E j \in 1..Len(last'.own) : last'.own[j] = row ]_vars

(* a call without candidates committed for a track that had some *)
EarlierCandidatesGone ==
    /\ last.op = "record_match"
    /\ last.ok
    /\ last.had > 0
    /\ last.own = <<>>
    /\ last.record.status = "error"
    /\ MatchState(Database, last.catalog, last.record.track_id).candidates = <<>>
    /\ MatchState(Database, last.catalog, last.record.track_id).match
          = Some([release_id |-> None, confidence |-> None,
                  status |-> "error", message |-> last.record.message])

----------------------------------------------------------------------------
(* Properties of the match rows the lookups and the startup migration      *)
(* leave, checked under SpecOutcomes                                       *)

MatchRows(catalog) == Database[MatchesTable(catalog)]

CandidateRowsOf(catalog, track_id) ==
    SelectSeq(Database[CandidatesTable(catalog)], LAMBDA row : row.match_id = track_id)

(* C2: a match row with status success has a release_id and a confidence.  *)
(* The code does not keep this: record_*_success stores what               *)
(* extract_release_id finds in the release document, which is nothing for  *)
(* a document whose "id" is null or that has no id at all.                 *)
SuccessHasReleaseAndConfidence ==
    \A catalog \in Catalogs : \A track_id \in DOMAIN MatchRows(catalog) :
        MatchRows(catalog)[track_id].status = "success"
            => /\ IsSome(MatchRows(catalog)[track_id].release_id)
               /\ IsSome(MatchRows(catalog)[track_id].confidence)

(* C3: a match row with status ambiguous has no release_id and no          *)
(* confidence, in both catalogs.  The code does not keep this:             *)
(* migrate_musicbrainz_payloads copies the legacy payload's release_id     *)
(* into the row whatever the status.                                       *)
AmbiguousHasNoReleaseNorConfidence ==
    \A catalog \in Catalogs : \A track_id \in DOMAIN MatchRows(catalog) :
        MatchRows(catalog)[track_id].status = "ambiguous"
            => /\ MatchRows(catalog)[track_id].release_id = None
               /\ MatchRows(catalog)[track_id].confidence = None

(* C4: a track whose match row has status error has no candidate rows in   *)
(* that catalog, whatever match the track had before.                      *)
ErrorHasNoCandidates ==
    \A catalog \in Catalogs : \A track_id \in DOMAIN MatchRows(catalog) :
        MatchRows(catalog)[track_id].status = "error"
            => CandidateRowsOf(catalog, track_id) = <<>>

(* record_failure committed for a track that had candidates *)
FailureAfterCandidates ==
    /\ last.op = "record_failure"
    /\ last.ok
    /\ last.had > 0
    /\ MatchRows(last.catalog)[last.track_id].status = "error"

----------------------------------------------------------------------------
(* Properties of the whole store and of the import, checked under Spec *)

TracksOf(table) == DOMAIN Database[table]

MatchIdsOf(catalog) ==
    { Database[CandidatesTable(catalog)][i].match_id :
        i \in 1..Len(Database[CandidatesTable(catalog)]) }

(* C6: in every reachable state each source link, local asset, library     *)
(* mapping and match row references an existing track and each candidate   *)
(* references an existing match row; so a deleted track has left no        *)
(* dependent row behind.                                                   *)
ReferentialIntegrity ==
    /\ \A table \in {"soundcloud_sources", "rekordbox_sources", "local_assets",
                     "discogs_matches", "musicbrainz_matches"} :
          TracksOf(table) \subseteq DOMAIN tracks
    /\ \A rekordbox_id \in DOMAIN rekordbox_mappings :
          rekordbox_mappings[rekordbox_id] \in DOMAIN tracks
    /\ \A catalog \in Catalogs : MatchIdsOf(catalog) \subseteq DOMAIN MatchRows(catalog)

(* an import deleted a track that had a streaming source, a local asset,   *)
(* match rows and candidates                                               *)
DeletedTrackHadDependents ==
    /\ last.op = "sync_rekordbox_tracks"
    /\ last.ok
    /\ last.stale # {}
    /\ {"soundcloud_sources", "local_assets", "discogs_matches", "discogs_candidates",
        "musicbrainz_matches"} \subseteq last.cascaded
    /\ last.stale \cap DOMAIN tracks = {}

(* the track has no row left in any table *)
Gone(db, track_id) ==
    /\ track_id \notin DOMAIN db.tracks
    /\ DependentTables(db, track_id) = {}
    /\ \A rekordbox_id \in DOMAIN db.rekordbox_mappings :
          db.rekordbox_mappings[rekordbox_id] # track_id

(* C7: an import that returns Ok leaves nothing of the tracks whose        *)
(* external id was mapped before and is not in the import: the track, its  *)
(* mapping, local asset, sources, matches and candidates are gone; and an  *)
(* external id that was mapped before and is in the import keeps its       *)
(* track_id.                                                               *)
StaleRemoval ==
    [][ last'.op = "sync_rekordbox_tracks" /\ last'.ok =>
          \A rekordbox_id \in DOMAIN rekordbox_mappings :
             IF rekordbox_id \in last'.ids
             THEN /\ rekordbox_id \in DOMAIN rekordbox_mappings'
                  /\ rekordbox_mappings'[rekordbox_id] = rekordbox_mappings[rekordbox_id]
                  /\ rekordbox_mappings[rekordbox_id] \in DOMAIN tracks'
             ELSE /\ rekordbox_id \notin DOMAIN rekordbox_mappings'
                  /\ Gone(Database', rekordbox_mappings[rekordbox_id]) ]_vars

(* an import of a proper, non-empty subset of the ids imported before      *)
(* removed a track that had dependent rows and kept another                *)
ReimportedSubset ==
    /\ last.op = "sync_rekordbox_tracks"
    /\ last.ok
    /\ last.ids # {}
    /\ last.stale # {}
    /\ last.cascaded # {}
    /\ DOMAIN rekordbox_mappings = last.ids
    /\ \A t \in last.stale : Gone(Database, t)

(* C8: the import is idempotent on identity.  An external id keeps its     *)
(* track_id for as long as it is mapped; no two external ids share a       *)
(* track and every mapped track exists; and an import of exactly the ids   *)
(* already mapped leaves the mappings and the set of track ids unchanged.  *)
SyncIdempotentOnIdentity ==
    [][ /\ \A rekordbox_id \in DOMAIN rekordbox_mappings \cap DOMAIN rekordbox_mappings' :
              rekordbox_mappings'[rekordbox_id] = rekordbox_mappings[rekordbox_id]
        /\ \A r1, r2 \in DOMAIN rekordbox_mappings' :
              rekordbox_mappings'[r1] = rekordbox_mappings'[r2] => r1 = r2
        /\ \A rekordbox_id \in DOMAIN rekordbox_mappings' :
              rekordbox_mappings'[rekordbox_id] \in DOMAIN tracks'
        /\ (last'.op = "sync_rekordbox_tracks" /\ last'.ok
                /\ last'.ids = DOMAIN rekordbox_mappings)
             => /\ rekordbox_mappings' = rekordbox_mappings
                /\ DOMAIN tracks' = DOMAIN tracks ]_vars

(* the ids that are mapped were imported again, two of them *)
ImportedUnchangedList ==
    /\ last.op = "sync_rekordbox_tracks"
    /\ last.ok
    /\ last.stale = {}
    /\ last.again
    /\ Cardinality(last.ids) >= 2
    /\ DOMAIN rekordbox_mappings = last.ids

(* C9: a track is deleted only by the import, and only a track that has no *)
(* streaming-service source link.  The code does not keep the second half: *)
(* the import deletes the track of every stale mapping without looking at  *)
(* soundcloud_sources, and the cascade removes the link with it.           *)
OnlyLibraryOnlyTracksDeleted ==
    [][ \A track_id \in DOMAIN tracks \ DOMAIN tracks' :
           /\ last'.op = "sync_rekordbox_tracks"
           /\ track_id \notin DOMAIN soundcloud_sources ]_vars

(* C10: the import is one transaction.  A call that fails at any           *)
(* statement, of an incoming track or of a stale deletion, leaves every    *)
(* table as it was before the call.                                        *)
SyncAllOrNothing ==
    [][ last'.op = "sync_rekordbox_tracks" /\ ~last'.ok => Database' = Database ]_vars

(* an import failed at the deletion of a stale track, after the statements *)
(* of its incoming tracks had run; the stale track is still there          *)
SyncRolledBack ==
    /\ last.op = "sync_rekordbox_tracks"
    /\ ~last.ok
    /\ last.failed_at = "delete_track"
    /\ rekordbox_mappings # EmptyTable
    /\ \A rekordbox_id \in DOMAIN rekordbox_mappings :
          rekordbox_mappings[rekordbox_id] \in DOMAIN tracks

----------------------------------------------------------------------------
(* Properties of the ingestion of streaming-service tracks, checked under  *)
(* SpecIngest                                                              *)

(* C11: sync_soundcloud_track is atomic: a call that fails leaves the      *)
(* store as it was before the call, the tracks row included.  The code     *)
(* does not keep this: upsert_track and link_soundcloud_source run one     *)
(* after the other on the bare connection, so a failure of the source      *)
(* write leaves the tracks row that upsert_track wrote.                    *)
SyncSoundcloudTrackAtomic ==
    [][ last'.op = "sync_soundcloud_track" /\ ~last'.ok => Database' = Database ]_vars

(* the row carries the values of the record *)
Carries(row, record) ==
    /\ row.title = record.title
    /\ row.discogs_release_id = record.discogs_release_id
    /\ row.discogs_confidence = record.discogs_confidence
    /\ row.musicbrainz_release_id = record.musicbrainz_release_id
    /\ row.musicbrainz_confidence = record.musicbrainz_confidence
    /\ row.musicbrainz_payload = record.musicbrainz_payload

(* C12: upsert_track does not fail on an id that is already there and is   *)
(* idempotent.  Whatever the store holds, upsert_track(r) returns Ok when  *)
(* the database raises no error; applied once or twice it leaves the same  *)
(* store, in which the row r.track_id carries r's values and no other      *)
(* tracks row has changed; and upsert_track(r1) then upsert_track(r2) with *)
(* the same id leaves the row carrying r2's values.  The call that led to  *)
(* the state has left its record's values.                                 *)
UpsertTrackIdempotent ==
    /\ \A r1, r2 \in TrackRecords :
          LET once == upsert_track(Database, r1, 0)
              twice == upsert_track(once.db, r1, 0)
              then == upsert_track(once.db, r2, 0)
          IN /\ once.ok /\ twice.ok /\ then.ok
             /\ twice.db = once.db
             /\ DOMAIN once.db.tracks = DOMAIN tracks \cup {r1.track_id}
             /\ Carries(once.db.tracks[r1.track_id], r1)
             /\ \A t \in DOMAIN tracks \ {r1.track_id} : once.db.tracks[t] = tracks[t]
             /\ r2.track_id = r1.track_id => Carries(then.db.tracks[r2.track_id], r2)
    /\ (last.op = "upsert_track" /\ last.ok)
          => /\ last.record.track_id \in DOMAIN tracks
             /\ Carries(tracks[last.record.track_id], last.record)

(* upsert_track returned Ok for an id whose row carried other values *)
UpsertedOverOtherValues ==
    /\ last.op = "upsert_track"
    /\ last.ok
    /\ IsSome(last.before)
    /\ ~Carries(last.before[1], last.record)
    /\ Carries(tracks[last.record.track_id], last.record)

----------------------------------------------------------------------------
(* Claims about the verdict of the lookup clients, checked under           *)
(* SpecVerdict                                                             *)

(* the candidate list the verdict is taken on: of a Discogs response the   *)
(* results that are releases with a resource_url, of a MusicBrainz         *)
(* response every release                                                  *)
CandidateList ==
    IF worker.catalog = "discogs" THEN DiscogsFiltered(worker.results) ELSE worker.results

(* the score of a candidate, 0 for one that reports none *)
UsableScore(result) == IF IsSome(result.score) THEN result.score[1] ELSE 0

(* the highest score of a list, and the highest of the others *)
TopScore(list) ==
    CHOOSE s \in { UsableScore(list[i]) : i \in DOMAIN list } :
        \A i \in DOMAIN list : UsableScore(list[i]) <= s

RunnerUpScore(list) ==
    LET top == CHOOSE i \in DOMAIN list : UsableScore(list[i]) = TopScore(list)
    IN TopScore([i \in 1..(Len(list) - 1) |-> list[IF i < top THEN i ELSE i + 1]])

(* the client has taken its verdict on the response to the job's search:   *)
(* the job has ended, or the Discogs client has gone on to fetch the       *)
(* release it accepted                                                     *)
VerdictTaken ==
    /\ CandidateList # <<>>
    /\ IsSome(worker.accepted) \/ IsSome(worker.outcome)

VerdictKind ==
    IF IsSome(worker.accepted) THEN "success" ELSE worker.outcome[1].kind

VerdictConfidence ==
    IF IsSome(worker.accepted) THEN worker.accepted[1].confidence
    ELSE worker.outcome[1].confidence

(* C13: whenever the candidate list of a catalog's client has a top score  *)
(* of 95 or more, the verdict is Success whatever the runner-up's score    *)
(* is.  Refuted: the Discogs client has no such rule, it accepts a list of *)
(* several candidates only when the top score is 85 or more and leads by   *)
(* 10, so the scores 96 and 90 give Ambiguous.                             *)
HighScoreIsSuccess ==
    (VerdictTaken /\ TopScore(CandidateList) >= HighConfidence)
        => VerdictKind = "success"

(* C14: two or more candidates whose top score is below 95 and does not    *)
(* both reach 85 and lead the runner-up by 10 give Ambiguous with at most  *)
(* five candidates, also when every score is zero or missing.  Refuted:    *)
(* the MusicBrainz client takes a top score of zero or less for 100, so a  *)
(* list without scores is a Success.                                       *)
NoRuleIsAmbiguous ==
    (/\ VerdictTaken
     /\ Len(CandidateList) >= 2
     /\ TopScore(CandidateList) < HighConfidence
     /\ ~(/\ TopScore(CandidateList) >= ConfidentScore
          /\ TopScore(CandidateList) - RunnerUpScore(CandidateList) >= ConfidentMargin))
        => /\ VerdictKind = "ambiguous"
           /\ Len(worker.outcome[1].candidates) <= CandidateLimit

(* C15: a list of exactly one candidate gives Success; the confidence is   *)
(* the candidate's score, and 100 when it has no usable score (a reported  *)
(* score of zero may count either way).  Refuted: the Discogs client gives *)
(* the confidence 0 to a single candidate that reports no score.           *)
SingleCandidateIsSuccess ==
    (VerdictTaken /\ Len(CandidateList) = 1)
        => /\ VerdictKind = "success"
           /\ LET score == CandidateList[1].score
              IN VerdictConfidence \in
                    (IF IsSome(score) /\ score[1] > 0 THEN {score[1]}
                     ELSE IF IsSome(score) THEN {score[1], ScoreCeiling}
                     ELSE {ScoreCeiling})

----------------------------------------------------------------------------
(* Claims about retries and the rate limiter, checked under SpecLookup and *)
(* FairLookup                                                              *)

RateLimited == {429, 503}

(* every request of the job was answered with 429 or 503 *)
AllRateLimited ==
    /\ worker.responses # <<>>
    /\ \A i \in DOMAIN worker.responses : worker.responses[i] \in RateLimited

(* the job of the worker has ended *)
JobEnded ==
    /\ worker.pc = "idle"
    /\ IsSome(worker.outcome)
    /\ worker.outcome[1].kind # "skipped"

JobTrackId == worker.payload[1].track_id

(* C16: the MusicBrainz client never issues a fourth search request for a  *)
(* job; a job whose every request was answered with 429 or 503 ends after  *)
(* exactly three requests with the Failure "rate limited by MusicBrainz",  *)
(* which the worker hands to record_musicbrainz_failure (the matches row   *)
(* is an error row when the store call returns Ok); and every             *)
(* perform_lookup the worker has begun returns.                            *)
RetryCap ==
    /\ [](worker.catalog = "musicbrainz"
            => /\ worker.sent <= MAX_ATTEMPTS
               /\ worker.sent = Len(worker.responses)
               /\ (JobEnded /\ AllRateLimited)
                    => /\ worker.sent = MAX_ATTEMPTS
                       /\ worker.outcome[1] = Failure("rate limited by MusicBrainz"))
    /\ [][ (worker.catalog = "musicbrainz" /\ AllRateLimited
                /\ worker.pc = "persist" /\ worker'.pc = "idle")
             => /\ last'.op = "record_failure"
                /\ last'.ok
                     => /\ JobTrackId \in DOMAIN musicbrainz_matches'
                        /\ musicbrainz_matches'[JobTrackId].status = "error"
                        /\ musicbrainz_matches'[JobTrackId].message
                              = Some("rate limited by MusicBrainz") ]_vars
    /\ (worker.catalog = "musicbrainz" /\ worker.pc \notin {"idle", "persist"})
          ~> (worker.pc = "persist")

(* a job ended after three answers of 429 or 503, and its failure is in    *)
(* the store                                                               *)
GaveUpAfterThreeAttempts ==
    /\ worker.catalog = "musicbrainz"
    /\ JobEnded
    /\ AllRateLimited
    /\ Len(worker.responses) = MAX_ATTEMPTS
    /\ last.op = "record_failure"
    /\ last.ok
    /\ JobTrackId \in DOMAIN musicbrainz_matches
    /\ musicbrainz_matches[JobTrackId].status = "error"

(* the answer the job's latest request got *)
LastResponse == worker.responses[Len(worker.responses)]

(* perform_lookup has returned for the job the worker holds or held last *)
LookupReturned == IsSome(worker.outcome) /\ worker.responses # <<>>

(* C17: every client, the Discogs client included, takes 429 and 503 for   *)
(* retryable: a lookup returns after such an answer only when the cap of   *)
(* three attempts is used up.  Refuted: the Discogs client returns         *)
(* Failure("search returned status") on the first 429 or 503.              *)
RateLimitedIsRetried ==
    (LookupReturned /\ LastResponse \in RateLimited)
        => Len(worker.responses) = MAX_ATTEMPTS

(* a transport error, unauthorized, forbidden, not found, another status *)
NotRetryable == {0, 401, 403, 404, 500}

EmptyQuery(payload) == Trim(QueryOf(worker.catalog, payload)) = ""

MissingTitleOrArtist == Failure("missing title or artist")

(* C19: a job whose query is empty is given the Failure "missing title or  *)
(* artist" as soon as it is received: wait() is not called (RateLimiter's  *)
(* last is as it was), no request is sent, and the worker hands the        *)
(* failure to record_*_failure, which leaves an error row when it returns  *)
(* Ok.                                                                     *)
EmptyQueryShortCircuits ==
    /\ [][ (worker'.jobs # worker.jobs /\ worker'.payload[1].track_id # ""
                /\ EmptyQuery(worker'.payload[1]))
             => /\ worker'.pc = "persist"
                /\ worker'.outcome = Some(MissingTitleOrArtist)
                /\ worker'.last_wait = worker.last_wait
                /\ worker'.gap = worker.gap ]_vars
    /\ [][ (worker.pc = "persist" /\ worker.outcome = Some(MissingTitleOrArtist)
                /\ worker'.pc = "idle")
             => /\ last'.op = "record_failure"
                /\ last'.ok
                     => /\ JobTrackId \in DOMAIN MatchRows(worker.catalog)'
                        /\ MatchRows(worker.catalog)'[JobTrackId].status = "error"
                        /\ MatchRows(worker.catalog)'[JobTrackId].message
                              = Some("missing title or artist") ]_vars
    /\ []((IsSome(worker.payload) /\ worker.payload[1].track_id # ""
              /\ EmptyQuery(worker.payload[1]))
             => /\ worker.waits = 0
                /\ worker.sent = 0
                /\ worker.pc \in {"persist", "idle"}
                /\ worker.outcome = Some(MissingTitleOrArtist))

(* the second job of a worker had an empty query and its failure is in the *)
(* store, after a first job for which the limiter had waited               *)
EmptyQueryRecorded ==
    /\ JobEnded
    /\ worker.jobs = 2
    /\ IsSome(worker.last_wait)
    /\ EmptyQuery(worker.payload[1])
    /\ last.op = "record_failure"
    /\ last.ok
    /\ MatchRows(worker.catalog)[JobTrackId].message = Some("missing title or artist")

(* C20: every request is sent on the return of a wait() of its own, and    *)
(* when wait() returns, at least the interval has passed since it returned *)
(* the time before, whether for the same job or an earlier one; the first  *)
(* wait() of a worker returns without sleeping.                            *)
RequestsAreSpaced ==
    /\ [](worker.pc = "send"
             => /\ worker.waits = worker.sent + 1
                /\ IsSome(worker.gap) => worker.gap[1] >= Interval)
    /\ [](worker.sent <= worker.waits)
    /\ [][ (worker'.sent # worker.sent /\ worker'.jobs = worker.jobs)
             => (worker.pc = "send" /\ worker'.sent = worker.sent + 1) ]_vars
    /\ [][ (worker.pc = "wait" /\ worker.last_wait = None /\ worker'.pc # "wait")
             => worker'.pc = "send" ]_vars

(* the wait() before the first request of a worker's second job returned   *)
(* a full interval after the wait() before it                              *)
SecondJobWaited ==
    /\ worker.pc = "send"
    /\ worker.jobs = 2
    /\ worker.sent = 0
    /\ worker.gap = Some(Interval)

----------------------------------------------------------------------------
(* Claims about the worker loop, checked under SpecLookup                  *)

(* the store method process_job calls for a result *)
MethodFor(outcome) ==
    CASE outcome.kind = "success" -> "record_success"
      [] outcome.kind = "ambiguous" -> "record_ambiguity"
      [] OTHER -> "record_failure"

(* the job the worker holds was skipped for its empty track id *)
JobSkipped ==
    /\ IsSome(worker.outcome)
    /\ worker.outcome[1].kind = "skipped"

(* C21: a job whose track id is empty is skipped: nothing is looked up and *)
(* the store is not called.  Every other job, however its lookup ends,     *)
(* ends with exactly one call of the record_* method of its result, made   *)
(* for the job's track in the worker's catalog; the store is not written   *)
(* at any other step of the worker; and after the call the worker is back  *)
(* at receiver.recv().                                                     *)
OneRecordPerJob ==
    /\ [](JobSkipped => /\ worker.pc = "idle"
                        /\ worker.recorded = 0
                        /\ worker.sent = 0
                        /\ worker.waits = 0)
    /\ [](JobEnded => worker.recorded = 1)
    /\ [](worker.pc # "idle" => worker.recorded = 0)
    /\ [][ (worker' # worker /\ worker.pc # "persist")
             => (Database' = Database /\ last' = last) ]_vars
    /\ [][ worker'.recorded # worker.recorded /\ worker'.jobs = worker.jobs
             => /\ worker.pc = "persist"
                /\ worker'.pc = "idle"
                /\ last'.op = MethodFor(worker.outcome[1])
                /\ last'.ok => /\ JobTrackId \in DOMAIN MatchRows(worker.catalog)'
                               /\ MatchRows(worker.catalog)'[JobTrackId].status
                                     = IF worker.outcome[1].kind = "failure" THEN "error"
                                       ELSE worker.outcome[1].kind ]_vars

(* the second job of a worker has been recorded as a success after its     *)
(* first job had failed on a transport error                               *)
SecondJobRecorded ==
    /\ JobEnded
    /\ worker.jobs = 2
    /\ worker.recorded = 1
    /\ worker.outcome[1].kind = "success"
    /\ last.op = "record_success"
    /\ last.ok
    /\ MatchRows(worker.catalog)[JobTrackId].status = "success"

(* C24: the worker emits exactly one ambiguity event for a job whose       *)
(* result is Ambiguous, carrying the job's track id, its query and the     *)
(* candidates of the result, and none for a job that ends in Success or    *)
(* Failure or is skipped.                                                  *)
OneEventPerAmbiguity ==
    /\ [](JobSkipped => worker.events = 0)
    /\ [](worker.pc # "idle" => worker.events = 0)
    /\ [](JobEnded
            => IF worker.outcome[1].kind = "ambiguous"
               THEN /\ worker.events = 1
                    /\ worker.event
                         = Some([track_id |-> JobTrackId,
                                 query |-> QueryOf(worker.catalog, worker.payload[1]),
                                 candidates |-> worker.outcome[1].candidates])
               ELSE /\ worker.events = 0
                    /\ worker.event = None)

(* a job ended Ambiguous with its event emitted, for several candidates *)
AmbiguityEventEmitted ==
    /\ JobEnded
    /\ worker.outcome[1].kind = "ambiguous"
    /\ worker.events = 1
    /\ Len(worker.event[1].candidates) = CandidateLimit

----------------------------------------------------------------------------
(* Startup, again and again, on a database an earlier version wrote        *)

LegacyLibraryIds == {"sc:1", "sc:2"}

(* tracks with and without legacy payloads, nothing normalized yet *)
InitMigration ==
    /\ opened = FALSE
    /\ \E ids \in SUBSET LegacyLibraryIds :
          tracks \in [ids -> { [BareTrack EXCEPT !.discogs_payload = d,
                                                 !.musicbrainz_payload = m] :
                               d \in {None} \cup { Some(p) : p \in LegacyPayloads },
                               m \in {None} \cup { Some(p) : p \in LegacyPayloads } }]
    /\ soundcloud_sources = EmptyTable
    /\ rekordbox_sources = EmptyTable
    /\ local_assets = EmptyTable
    /\ rekordbox_mappings = EmptyTable
    /\ discogs_matches = EmptyTable
    /\ discogs_candidates = <<>>
    /\ musicbrainz_matches = EmptyTable
    /\ musicbrainz_candidates = <<>>
    /\ last = [op |-> "none", ok |-> TRUE, failed_at |-> "none"]
    /\ worker = IdleWorker("discogs")
    /\ app = NewAppState("discogs")

(* the application exits: the file stays, the connection is gone *)
Exit ==
    /\ opened
    /\ opened' = FALSE
    /\ last' = [op |-> "exit", ok |-> TRUE, failed_at |-> "none"]
    /\ UNCHANGED <<tracks, soundcloud_sources, rekordbox_sources, local_assets,
                   rekordbox_mappings, discogs_matches, discogs_candidates,
                   musicbrainz_matches, musicbrainz_candidates, worker, app>>

NextMigration ==
    \/ Initialize
    \/ Exit

SpecMigration == InitMigration /\ [][NextMigration]_vars

HasLegacyPayload(track_id, catalog) ==
    IsSome(tracks[track_id][PayloadColumn(catalog)])

(* what the store holds of a track for one catalog *)
CatalogStateOf(db, catalog, track_id) ==
    [match |-> IF track_id \in DOMAIN db[MatchesTable(catalog)]
               THEN Some(db[MatchesTable(catalog)][track_id]) ELSE None,
     candidates |-> SelectSeq(db[CandidatesTable(catalog)],
                              LAMBDA row : row.match_id = track_id),
     release_id |-> db.tracks[track_id][ReleaseIdColumn(catalog)],
     confidence |-> db.tracks[track_id][ConfidenceColumn(catalog)],
     payload |-> db.tracks[track_id][PayloadColumn(catalog)]]

(* C28: the migration initialize runs leaves every track that had a legacy *)
(* payload of a catalog with a row in that catalog's matches table and the *)
(* legacy column NULL; of a track without a payload of a catalog it leaves *)
(* alone the match row, the candidates and the columns of that catalog,    *)
(* and it adds and removes no track and changes no title; run on the       *)
(* database it has produced it changes nothing.                            *)
MigrationMovesLegacyPayloads ==
    [][ (~opened /\ opened')
          => /\ DOMAIN tracks' = DOMAIN tracks
             /\ \A t \in DOMAIN tracks :
                   /\ tracks'[t].title = tracks[t].title
                   /\ \A catalog \in Catalogs :
                         IF HasLegacyPayload(t, catalog)
                         THEN /\ t \in DOMAIN MatchRows(catalog)'
                              /\ tracks'[t][PayloadColumn(catalog)] = None
                         ELSE CatalogStateOf(Database', catalog, t)
                                 = CatalogStateOf(Database, catalog, t)
             /\ apply_migrations(Database').db = Database'
             /\ (\A t \in DOMAIN tracks, catalog \in Catalogs :
                    ~HasLegacyPayload(t, catalog)) => Database' = Database ]_vars

(* a migrated store: one track has a match in both catalogs, the other,    *)
(* which had no payload, has none, and no legacy payload is left           *)
MigratedLibrary ==
    /\ opened
    /\ DOMAIN tracks = LegacyLibraryIds
    /\ "sc:1" \in DOMAIN discogs_matches /\ "sc:1" \in DOMAIN musicbrainz_matches
    /\ discogs_matches["sc:1"].status = "success"
    /\ Len(musicbrainz_candidates) = 2
    /\ "sc:2" \notin DOMAIN discogs_matches \cup DOMAIN musicbrainz_matches
    /\ \A t \in DOMAIN tracks, catalog \in Catalogs : ~HasLegacyPayload(t, catalog)

----------------------------------------------------------------------------
(* A service whose queue_lookup is called more often than its channel has  *)
(* slots, and whose every search is answered with 404                      *)

NotFound == { Response(404, None, None) }

WorkerStep ==
    \/ LimiterWait
    \/ LimiterWake
    \/ SearchResponded(NotFound)

NextQueue ==
    \/ QueueLookup({FullPayload}, MaxQueued)
    \/ Send
    \/ Dequeue
    \/ WorkerStep
    \/ Tick
    \/ Record(NoFailure)

SpecQueue == InitVerdict /\ [][NextQueue]_vars

(* what process_job does to the worker when it has the lock *)
Records == worker.pc = "persist" /\ worker' = Recorded(worker)

(* a sender task or the worker, whichever can go on, or the clock *)
Progress ==
    \/ Send
    \/ Dequeue
    \/ WorkerStep
    \/ Tick

(* the runtime polls the tasks that can go on and time passes: it is       *)
(* enough that it does not stop while a sender task or the worker can go   *)
(* on, and that the worker gets the lock it waits for                      *)
FairQueue ==
    /\ SpecQueue
    /\ WF_vars(Progress)
    /\ WF_worker(Records)

(* C22: no payload handed to queue_lookup is lost: each is held by its     *)
(* sender task, or is in the channel, or has been received by the worker;  *)
(* the channel never holds more than its capacity; a sender task ends only *)
(* by putting its payload into the channel; and, the runtime being fair,   *)
(* the worker has in the end received as many payloads as queue_lookup was *)
(* called with.                                                            *)
NoJobDropped ==
    /\ [](worker.queued = Len(worker.senders) + Len(worker.channel) + worker.jobs)
    /\ [](Len(worker.channel) <= ChannelCapacity)
    /\ [][ Len(worker'.senders) < Len(worker.senders)
             => Len(worker'.channel) = Len(worker.channel) + 1 ]_vars
    /\ <>[](worker.jobs = worker.queued)

(* the channel is full, a sender task is suspended and the worker has a    *)
(* job in hand                                                             *)
SenderBlocked ==
    /\ Len(worker.channel) = ChannelCapacity
    /\ worker.senders # <<>>
    /\ worker.pc = "send"

----------------------------------------------------------------------------
(* The services of both catalogs, each with lookups queued *)

NextWorkers ==
    \/ QueueLookup({FullPayload}, MaxPending)
    \/ Send
    \/ Dequeue
    \/ WorkerStep
    \/ Tick
    \/ Record(NoFailure)
    \/ Switch

SpecWorkers == InitVerdict /\ [][NextWorkers]_vars

(* a worker but for its clock *)
Untimed(w) == [w EXCEPT !.last_wait = None, !.remaining = 0, !.gap = None]

(* the step is one of the task that is followed *)
SameTask == worker'.catalog = worker.catalog

(* payloads handed to queue_lookup that the worker has not received *)
Pending(w) == Len(w.senders) + Len(w.channel)

(* C23: the worker of a catalog takes a payload from its channel only at   *)
(* the top of its loop, when the job before is over (recorded or skipped), *)
(* whatever is pending; it makes a request only inside the one job it has  *)
(* in hand, one at a time, each answered before the next; and a step of    *)
(* the worker of one catalog leaves the worker of the other as it is.      *)
RequestsAreSerialized ==
    /\ [][ (SameTask /\ worker'.jobs # worker.jobs)
             => /\ worker.pc = "idle"
                /\ worker'.jobs = worker.jobs + 1
                /\ worker.jobs > 0 => (JobEnded \/ JobSkipped) ]_vars
    /\ [][ (SameTask /\ worker'.jobs = worker.jobs /\ worker'.sent # worker.sent)
             => /\ worker.pc = "send"
                /\ worker'.sent = worker.sent + 1
                /\ Len(worker'.responses) = worker'.sent ]_vars
    /\ [](Len(worker.responses) = worker.sent)
    /\ [](worker.pc \in {"wait", "limiter_sleep", "send", "persist"}
            => IsSome(worker.payload) /\ worker.recorded = 0)
    /\ [][ (SameTask /\ Untimed(worker') # Untimed(worker))
             => app'.peer = app.peer ]_vars

(* the workers of both catalogs await the answer to a request at the same  *)
(* time, each with a payload in its channel and a sender task spawned      *)
BothCatalogsInFlight ==
    /\ worker.pc = "send"
    /\ app.peer.pc = "send"
    /\ worker.catalog # app.peer.catalog
    /\ Pending(worker) = MaxPending - 1
    /\ Pending(app.peer) = MaxPending - 1

----------------------------------------------------------------------------
(* The rekordbox watcher: RekordboxState, the tasks RekordboxWatcher::spawn *)
(* starts, and the import command that configures them                     *)

(* a path is followed by its file stem and its extension *)
Path(stem, extension) == [stem |-> stem, extension |-> extension]

MasterDb == Path("master", Some("db"))
BackupDb == Path("backup", Some("db"))
XmlExport == Path("export", Some("xml"))
XmlExportUpperCase == Path("export", Some("XML"))
Paths == {MasterDb, BackupDb, XmlExport, XmlExportUpperCase}

(* str::to_ascii_lowercase on the extensions that occur *)
AsciiLowerCase(str) == IF str \in {"XML", "Xml", "xml"} THEN "xml" ELSE str

eq_ignore_ascii_case(a, b) == AsciiLowerCase(a) = AsciiLowerCase(b)

(* load_tracks: the parser it takes for the path *)
ParserOf(path) ==
    IF IsSome(path.extension) /\ eq_ignore_ascii_case(path.extension[1], "xml")
    THEN "parse_xml_export" ELSE "parse_master_db"

(* an auto refresh for every extension but the literal xml *)
supports_auto_refresh_of_lower_case(path) ==
    ~(IsSome(path.extension) /\ path.extension[1] = "xml")

supports_auto_refresh(path) ==
    ~(IsSome(path.extension) /\ eq_ignore_ascii_case(path.extension[1], "xml"))

(* the task of RekordboxWatcher::spawn: it sleeps, or awaits load_tracks,  *)
(* or has ended                                                            *)
WatcherTask(path) == [path |-> path, pc |-> "sleep"]

(* a watcher dropped without a word to its task *)
Detach(tasks, watcher) == tasks

(* Drop for RekordboxWatcher: handle.abort().  The task is at one of its   *)
(* awaits, where the abort ends it.                                        *)
Abort(tasks, watcher) ==
    IF IsSome(watcher) THEN [tasks EXCEPT ![watcher[1].handle].pc = "ended"] ELSE tasks

(* RekordboxState::configure: nothing for the path that is watched; else   *)
(* the task is spawned, and the assignment drops the watcher before        *)
configure(state, path) ==
    IF IsSome(state.watcher) /\ state.watcher[1].path = path
    THEN state
    ELSE [state EXCEPT
            !.tasks = Append(Abort(state.tasks, state.watcher), WatcherTask(path)),
            !.watcher = Some([path |-> path, handle |-> Len(state.tasks) + 1])]

(* RekordboxState::disable *)
disable(state) ==
    [state EXCEPT !.tasks = Abort(state.tasks, state.watcher), !.watcher = None]

(* the watcher tasks spawned in one run of the application *)
MaxTasks == 3

(* the lists load_tracks returns of the files that are imported *)
LoadedLists == { incoming \in ImportLists : Len(incoming) = 1 }

(* the import_rekordbox_library command: load_tracks, then the sync under  *)
(* the lock of the library, then the watcher.  Each ? returns early.       *)
ImportRekordboxLibrary(paths, lists) ==
    /\ opened
    /\ \E path \in paths, loaded \in {None} \cup { Some(incoming) : incoming \in lists } :
          LET failed(at) == [op |-> "import_rekordbox_library", ok |-> FALSE,
                             failed_at |-> at, path |-> path]
          IN IF ~IsSome(loaded)
             THEN /\ last' = failed("load_tracks")
                  /\ UNCHANGED <<opened, tracks, soundcloud_sources, rekordbox_sources,
                                 local_assets, rekordbox_mappings, discogs_matches,
                                 discogs_candidates, musicbrainz_matches,
                                 musicbrainz_candidates, worker, app>>
             ELSE IF app.poisoned
             THEN /\ last' = failed("lock")
                  /\ UNCHANGED <<opened, tracks, soundcloud_sources, rekordbox_sources,
                                 local_assets, rekordbox_mappings, discogs_matches,
                                 discogs_candidates, musicbrainz_matches,
                                 musicbrainz_candidates, worker, app>>
             ELSE \E order \in Orderings(DOMAIN StaleMap(rekordbox_mappings, loaded[1])) :
                  \E fail \in 0..1 :
                     LET r == sync_rekordbox_tracks(Database, loaded[1], order, fail)
                         after == IF supports_auto_refresh(path)
                                  THEN configure(app, path) ELSE disable(app)
                     IN /\ r.ok => Len(after.tasks) <= MaxTasks
                        /\ Becomes(r.db)
                        /\ last' = IF r.ok
                                   THEN [op |-> "import_rekordbox_library", ok |-> TRUE,
                                         failed_at |-> "none", path |-> path,
                                         ids |-> { loaded[1][i].rekordbox_id :
                                                     i \in 1..Len(loaded[1]) }]
                                   ELSE failed(r.failed_at)
                        /\ app' = IF r.ok THEN after ELSE app
                        /\ UNCHANGED <<opened, worker>>

(* the sleep of a watcher task is over and the file has a later            *)
(* modification time: it awaits load_tracks                                *)
WatcherWake ==
    \E i \in DOMAIN app.tasks :
        /\ app.tasks[i].pc = "sleep"
        /\ app' = [app EXCEPT !.tasks[i].pc = "load"]
        /\ UNCHANGED <<opened, tracks, soundcloud_sources, rekordbox_sources,
                       local_assets, rekordbox_mappings, discogs_matches,
                       discogs_candidates, musicbrainz_matches, musicbrainz_candidates,
                       last, worker>>

(* load_tracks of a watcher task has returned: an error is logged; tracks  *)
(* are synced under the lock, and without the lock the refresh is given    *)
(* up.  The task sleeps again.                                             *)
WatcherRefresh(lists) ==
    \E i \in DOMAIN app.tasks, loaded \in {None} \cup { Some(incoming) : incoming \in lists } :
        /\ app.tasks[i].pc = "load"
        /\ app' = [app EXCEPT !.tasks[i].pc = "sleep"]
        /\ UNCHANGED <<opened, worker>>
        /\ LET failed(at) == [op |-> "rekordbox_refresh", ok |-> FALSE, failed_at |-> at,
                              path |-> app.tasks[i].path]
           IN IF ~IsSome(loaded) \/ app.poisoned
              THEN /\ last' = failed(IF IsSome(loaded) THEN "lock" ELSE "load_tracks")
                   /\ UNCHANGED <<tracks, soundcloud_sources, rekordbox_sources,
                                  local_assets, rekordbox_mappings, discogs_matches,
                                  discogs_candidates, musicbrainz_matches,
                                  musicbrainz_candidates>>
              ELSE \E order \in Orderings(DOMAIN StaleMap(rekordbox_mappings, loaded[1])) :
                   \E fail \in 0..1 :
                      LET r == sync_rekordbox_tracks(Database, loaded[1], order, fail)
                      IN /\ Becomes(r.db)
                         /\ last' = IF r.ok
                                    THEN [op |-> "rekordbox_refresh", ok |-> TRUE,
                                          failed_at |-> "none", path |-> app.tasks[i].path]
                                    ELSE failed(r.failed_at)

NextWatcher ==
    \/ ImportRekordboxLibrary(Paths, LoadedLists)
    \/ WatcherWake
    \/ WatcherRefresh(LoadedLists)

SpecWatcher == InitOpened /\ [][NextWatcher]_vars


(* the watcher tasks that have not ended *)
AliveTasks(state) == { i \in DOMAIN state.tasks : state.tasks[i].pc # "ended" }

(* the import command has returned Ok in this step *)
Imported == last'.op = "import_rekordbox_library" /\ last'.ok /\ last' # last

----------------------------------------------------------------------------
(* The application with a library whose lock gets poisoned: a command, the *)
(* lookup worker and the rekordbox watcher                                 *)

AmbiguousResponse ==
    Response(200, None, Some(<<SearchResult(Some(1), Some(80), TRUE, TRUE),
                               SearchResult(Some(2), Some(80), TRUE, TRUE)>>))

NextPoison ==
    \/ UpsertTrack(HandlerTrackRecords, SoundcloudTrackIds)
    \/ ImportRekordboxLibrary({MasterDb}, LoadedLists)
    \/ WatcherWake
    \/ WatcherRefresh(LoadedLists)
    \/ ReceiveJob({FullPayload})
    \/ LimiterWait
    \/ LimiterWake
    \/ Tick
    \/ SearchResponded(NotFound \cup {AmbiguousResponse})
    \/ Record(NoFailure)
    \/ Poison

SpecPoison == InitVerdict /\ [][NextPoison]_vars

(* C30: once the lock of the library is poisoned no step writes the store; *)
(* every command, job and refresh that asks for the lock ends with an      *)
(* error (an import or a refresh may fail before, in load_tracks); the     *)
(* worker that could not record its job is back at the top of its loop     *)
(* with nothing recorded, and takes the next job; and no watcher task      *)
(* ends.                                                                   *)
PoisonedLockStopsOnlyTheCaller ==
    /\ [][ app.poisoned => Database' = Database ]_vars
    /\ [][ (app.poisoned /\ last' # last)
             => /\ ~last'.ok
                /\ last'.failed_at \in {"lock", "load_tracks"}
                /\ last'.failed_at = "load_tracks"
                      => last'.op \in {"import_rekordbox_library", "rekordbox_refresh"}
          ]_vars
    /\ [][ (app.poisoned /\ worker.pc = "persist" /\ worker'.pc # "persist")
             => /\ worker'.pc = "idle"
                /\ worker'.recorded = 0
                /\ worker'.jobs = worker.jobs
                /\ last'.op = "process_job" ]_vars
    /\ [][ app.poisoned => /\ AliveTasks(app') = AliveTasks(app)
                           /\ app'.watcher = app.watcher ]_vars
    /\ [][ (app.poisoned /\ worker'.jobs # worker.jobs) => worker'.pc = "wait" ]_vars

(* with the lock poisoned, the worker has ended a second job without       *)
(* recording it, and the watcher task has given up a refresh and sleeps    *)
(* again                                                                   *)
LoopsSurvivePoison ==
    /\ app.poisoned
    /\ worker.jobs = 2
    /\ JobEnded
    /\ worker.recorded = 0
    /\ worker.events = 1
    /\ last.op = "rekordbox_refresh"
    /\ last.failed_at = "lock"
    /\ IsSome(app.watcher)
    /\ app.tasks[app.watcher[1].handle].pc = "sleep"
    /\ musicbrainz_matches = EmptyTable /\ discogs_matches = EmptyTable

----------------------------------------------------------------------------
(* The handler of the playlist event, with syncs that fail at the write of *)
(* the source                                                              *)

(* tracks of one playlist event *)
MaxPlaylistLen == 2

PlaylistTracks == { Payload(t, Some("artist"), Some("title"), <<>>) : t \in {"sc:1", "sc:2"} }

(* payload.tracks of a playlist event *)
Playlists == SeqsUpTo(PlaylistTracks, MaxPlaylistLen)

(* the TrackRecord and the SoundcloudSourceRecord the handler builds of a  *)
(* track of the playlist                                                   *)
TrackRecordOf(payload) ==
    [track_id |-> payload.track_id, title |-> payload.title,
     discogs_release_id |-> None, discogs_confidence |-> None,
     musicbrainz_release_id |-> None, musicbrainz_confidence |-> None,
     musicbrainz_payload |-> None]

SourceRecordOf(payload) ==
    [track_id |-> payload.track_id, soundcloud_id |-> "1", raw_payload |-> "liked"]

(* a loop that ends at the first track whose sync fails *)
RECURSIVE SyncPlaylistUntilFailure(_, _, _, _)
SyncPlaylistUntilFailure(db, playlist, fails, i) ==
    IF i > Len(playlist) THEN [db |-> db, synced |-> <<>>]
    ELSE LET r == sync_soundcloud_track(db, TrackRecordOf(playlist[i]),
                                        SourceRecordOf(playlist[i]), fails[i])
         IN IF r.ok
            THEN LET rest == SyncPlaylistUntilFailure(r.db, playlist, fails, i + 1)
                 IN [db |-> rest.db, synced |-> <<TRUE>> \o rest.synced]
            ELSE [db |-> r.db, synced |-> [j \in 1..(Len(playlist) - i + 1) |-> FALSE]]

(* the handler's loop over payload.tracks from the i-th on: the store      *)
(* after it, and for each track whether its sync returned Ok               *)
RECURSIVE SyncPlaylist(_, _, _, _)
SyncPlaylist(db, playlist, fails, i) ==
    IF i > Len(playlist) THEN [db |-> db, synced |-> <<>>]
    ELSE LET r == sync_soundcloud_track(db, TrackRecordOf(playlist[i]),
                                        SourceRecordOf(playlist[i]), fails[i])
             rest == SyncPlaylist(r.db, playlist, fails, i + 1)
         IN [db |-> rest.db, synced |-> <<r.ok>> \o rest.synced]

(* the tracks of the playlist the else branch of the loop was taken for *)
RECURSIVE Queued(_, _, _)
Queued(playlist, synced, i) ==
    IF i > Len(playlist) THEN <<>>
    ELSE (IF synced[i] THEN <<playlist[i]>> ELSE <<>>) \o Queued(playlist, synced, i + 1)

(* queue_lookup of a service for each of the payloads *)
QueuedOn(w, payloads) ==
    [w EXCEPT !.senders = @ \o payloads, !.queued = @ + Len(payloads)]

(* the listener of the playlist event: the lock for the whole batch, then  *)
(* for each track sync_soundcloud_track and, when that returned Ok, a      *)
(* queue_lookup on both services                                           *)
PlaylistUpdated(playlists, failures) ==
    /\ opened
    /\ \E playlist \in playlists :
       \E fails \in [1..Len(playlist) -> failures] :
          /\ worker.queued < MaxPending
          /\ IF app.poisoned
             THEN LockPoisoned("playlist") /\ UNCHANGED <<worker, app>>
             ELSE LET r == SyncPlaylist(Database, playlist, fails, 1)
                      payloads == Queued(playlist, r.synced, 1)
                  IN /\ Becomes(r.db)
                     /\ last' = [op |-> "playlist", ok |-> TRUE, failed_at |-> "none",
                                 playlist |-> playlist, fails |-> fails]
                     /\ worker' = QueuedOn(worker, payloads)
                     /\ app' = [app EXCEPT !.peer = QueuedOn(@, payloads)]
                     /\ UNCHANGED opened

NextPlaylist ==
    \/ PlaylistUpdated(Playlists, {0, 3})
    \/ Send

SpecPlaylist == InitOpened /\ [][NextPlaylist]_vars

(* the handler has run in this step *)
PlaylistHandled ==
    /\ last'.op = "playlist"
    /\ last'.ok
    /\ SameTask
    /\ last' # last \/ worker'.queued # worker.queued

(* the number of entries of a sequence that are the payload *)
Occurrences(s, payload) == Cardinality({ i \in DOMAIN s : s[i] = payload })

(* C29: in the batch of a playlist event, every track whose                *)
(* sync_soundcloud_track does not fail is in tracks and soundcloud_sources *)
(* afterwards and has one lookup queued on each of the two services, also  *)
(* when the sync of a track before it failed; for a track whose sync       *)
(* failed no lookup is queued.                                             *)
FailedTrackDoesNotAbortBatch ==
    [][ PlaylistHandled =>
          LET playlist == last'.playlist
              fails == last'.fails
              good == { i \in DOMAIN playlist : fails[i] = 0 }
          IN /\ \A i \in good :
                   /\ playlist[i].track_id \in DOMAIN tracks'
                   /\ playlist[i].track_id \in DOMAIN soundcloud_sources'
             /\ \A payload \in PlaylistTracks :
                   LET lookups == Cardinality({ i \in good : playlist[i] = payload })
                   IN /\ Occurrences(worker'.senders, payload)
                           = Occurrences(worker.senders, payload) + lookups
                      /\ Occurrences(app'.peer.senders, payload)
                           = Occurrences(app.peer.senders, payload) + lookups
             /\ worker'.queued = worker.queued + Cardinality(good)
             /\ app'.peer.queued = app.peer.queued + Cardinality(good)
             /\ worker'.channel = worker.channel ]_vars

(* the sync of the first track of a playlist of two has failed, and the    *)
(* second track is in the store with a lookup queued on both services      *)
SecondTrackSynced ==
    /\ last.op = "playlist"
    /\ Len(last.playlist) = 2
    /\ last.fails[1] = 3
    /\ last.fails[2] = 0
    /\ last.playlist[1].track_id = "sc:1"
    /\ last.playlist[2].track_id = "sc:2"
    /\ "sc:2" \in DOMAIN soundcloud_sources
    /\ "sc:1" \notin DOMAIN soundcloud_sources
    /\ worker.senders = <<last.playlist[2]>>
    /\ app.peer.senders = <<last.playlist[2]>>

----------------------------------------------------------------------------
(* list_library_status, on libraries whose tracks rows carry the           *)
(* updated_at column                                                       *)

DEFAULT_LIMIT == 100
MAX_LIMIT == 500

StatusFilter(missing_assets, unresolved_discogs, liked, rekordbox, limit, offset) ==
    [missing_assets_only |-> missing_assets,
     unresolved_discogs_only |-> unresolved_discogs,
     liked_only |-> liked, rekordbox_only |-> rekordbox,
     limit |-> limit, offset |-> offset]

(* the ids of the library in ascending order of the BINARY collation *)
IdOrder == <<"rekordbox:1", "sc:1", "sc:2">>

IdRank(id) == CHOOSE i \in DOMAIN IdOrder : IdOrder[i] = id

(* json_extract(ss.raw_payload, '$.likedAt') of the payloads that occur *)
LikedAt(raw_payload) == IF raw_payload = "liked" THEN Some("2024-01-01") ELSE None

(* the columns of the joined row of track t the query reads; a LEFT JOIN   *)
(* without a match gives NULL.  Every joined table has track_id as its     *)
(* primary key, so there is one joined row for each track.                 *)
JoinedRow(db, t) ==
    LET ss == IF t \in DOMAIN db.soundcloud_sources
              THEN Some(db.soundcloud_sources[t]) ELSE None
        dm == IF t \in DOMAIN db.discogs_matches THEN Some(db.discogs_matches[t]) ELSE None
        la == IF t \in DOMAIN db.local_assets THEN Some(db.local_assets[t]) ELSE None
    IN [track_id |-> t,
        updated_at |-> db.tracks[t].updated_at,
        liked_at |-> IF IsSome(ss) THEN LikedAt(ss[1].raw_payload) ELSE None,
        dm_status |-> IF IsSome(dm) THEN Some(dm[1].status) ELSE None,
        dm_release_id |-> IF IsSome(dm) THEN dm[1].release_id ELSE None,
        la_available |-> IF IsSome(la) THEN Some(la[1].available) ELSE None,
        in_rekordbox |-> t \in DOMAIN db.rekordbox_sources]

(* the WHERE clause: the conditions of the flags that are set, joined by   *)
(* AND                                                                     *)
Where(filter, row) ==
    /\ filter.missing_assets_only
          => (~IsSome(row.la_available) \/ row.la_available = Some(FALSE))
    /\ filter.unresolved_discogs_only
          => (~IsSome(row.dm_status) \/ row.dm_status # Some("success")
              \/ ~IsSome(row.dm_release_id))
    /\ filter.liked_only => IsSome(row.liked_at)
    /\ filter.rekordbox_only => row.in_rekordbox

(* ORDER BY t.updated_at DESC, t.id ASC *)
OrderedBefore(a, b) ==
    \/ a.updated_at > b.updated_at
    \/ a.updated_at = b.updated_at /\ IdRank(a.track_id) < IdRank(b.track_id)

RECURSIVE OrderBy(_)
OrderBy(rows) ==
    IF rows = {} THEN <<>>
    ELSE LET first == CHOOSE a \in rows : \A b \in rows \ {a} : OrderedBefore(a, b)
         IN <<first>> \o OrderBy(rows \ {first})

(* a page that starts at the row before *)
LimitFromOffset(rows, limit, offset) ==
    SubSeq(rows, Max(1, offset), Min(Len(rows), offset + limit))

(* LIMIT :limit OFFSET :offset *)
LimitOffset(rows, limit, offset) ==
    IF offset >= Len(rows) THEN <<>>
    ELSE SubSeq(rows, offset + 1, Min(Len(rows), offset + limit))

(* the LibraryStatusRow of a joined row *)
LibraryStatusRow(row) ==
    [track_id |-> row.track_id,
     liked |-> IsSome(row.liked_at),
     matched |-> row.dm_status = Some("success") /\ IsSome(row.dm_release_id),
     has_local_file |-> IsSome(row.la_available),
     local_available |-> row.la_available = Some(TRUE),
     in_rekordbox |-> row.in_rekordbox]

list_library_status(db, filter) ==
    LET requested_limit == IF IsSome(filter.limit) THEN filter.limit[1] ELSE DEFAULT_LIMIT
        limit == Min(Max(requested_limit, 1), MAX_LIMIT)
        offset_value == IF IsSome(filter.offset) THEN filter.offset[1] ELSE 0
        selected == { row \in { JoinedRow(db, t) : t \in DOMAIN db.tracks } :
                        Where(filter, row) }
        page == LimitOffset(OrderBy(selected), limit, offset_value)
    IN [rows |-> [i \in 1..Len(page) |-> LibraryStatusRow(page[i])],
        total |-> Cardinality(selected),
        limit |-> limit,
        offset |-> offset_value]

(* the filters of the status view: no flag, one flag, two, all; and the    *)
(* limits it asks for: none, zero, two, and more than the maximum          *)
StatusFilters ==
    { StatusFilter(flags[1], flags[2], flags[3], flags[4], limit, None) :
        flags \in { <<FALSE, FALSE, FALSE, FALSE>>, <<TRUE, FALSE, FALSE, FALSE>>,
                    <<FALSE, TRUE, FALSE, FALSE>>, <<FALSE, FALSE, TRUE, FALSE>>,
                    <<FALSE, FALSE, FALSE, TRUE>>, <<TRUE, TRUE, FALSE, FALSE>>,
                    <<TRUE, TRUE, TRUE, TRUE>> },
        limit \in {None, Some(0), Some(2), Some(MAX_LIMIT + 1)} }

(* what a track of the library has in the joined tables *)
StatusProfile(source, asset, match, in_rekordbox) ==
    [source |-> source, asset |-> asset, match |-> match, in_rekordbox |-> in_rekordbox]

StatusProfiles ==
    { StatusProfile(Some("liked"), None, None, FALSE),
      StatusProfile(Some("plain"), Some(TRUE), Some(Some("r1")), FALSE),
      StatusProfile(None, Some(FALSE), Some(None), TRUE) }

Timestamps == {1, 2}

(* an opened library of up to three tracks *)
InitStatus ==
    /\ opened = TRUE
    /\ \E ids \in SUBSET Range(IdOrder) :
       \E profile \in [ids -> StatusProfiles], stamp \in [ids -> Timestamps] :
          /\ tracks = [t \in ids |->
                         [title |-> Some("title"), updated_at |-> stamp[t],
                          discogs_payload |-> None,
                          discogs_release_id |-> IF IsSome(profile[t].match)
                                                 THEN profile[t].match[1] ELSE None,
                          discogs_confidence |-> None,
                          musicbrainz_payload |-> None, musicbrainz_release_id |-> None,
                          musicbrainz_confidence |-> None]]
          /\ soundcloud_sources =
                [t \in { t \in ids : IsSome(profile[t].source) } |->
                    [soundcloud_id |-> "1", raw_payload |-> profile[t].source[1]]]
          /\ local_assets =
                [t \in { t \in ids : IsSome(profile[t].asset) } |->
                    [location |-> "/music/a.mp3", available |-> profile[t].asset[1]]]
          /\ discogs_matches =
                [t \in { t \in ids : IsSome(profile[t].match) } |->
                    [release_id |-> profile[t].match[1], confidence |-> None,
                     status |-> "success", message |-> None]]
          /\ rekordbox_sources =
                [t \in { t \in ids : profile[t].in_rekordbox } |-> [raw_payload |-> "cues"]]
    /\ rekordbox_mappings = EmptyTable
    /\ discogs_candidates = <<>>
    /\ musicbrainz_matches = EmptyTable
    /\ musicbrainz_candidates = <<>>
    /\ last = [op |-> "initialize", ok |-> TRUE, failed_at |-> "none"]
    /\ worker = IdleWorker("discogs")
    /\ app = NewAppState("discogs")

(* the list_library_status command.  last keeps the filter, the page       *)
(* returned, and the track ids of the pages returned since offset 0        *)
ListLibraryStatus(filters) ==
    /\ opened
    /\ \E filter \in filters :
          LET page == list_library_status(Database, filter)
              first == ~IsSome(filter.offset) \/ filter.offset = Some(0)
          IN /\ first \/ /\ last.op = "list_library_status"
                         /\ [filter EXCEPT !.offset = None] = [last.filter EXCEPT !.offset = None]
                         /\ filter.offset = Some(last.page.offset + last.page.limit)
                         /\ last.page.offset < last.page.total
             /\ last' = [op |-> "list_library_status", ok |-> TRUE, failed_at |-> "none",
                         filter |-> filter, page |-> page,
                         seen |-> (IF first THEN <<>> ELSE last.seen)
                                  \o [i \in 1..Len(page.rows) |-> page.rows[i].track_id]]
             /\ UNCHANGED <<opened, tracks, soundcloud_sources, rekordbox_sources,
                            local_assets, rekordbox_mappings, discogs_matches,
                            discogs_candidates, musicbrainz_matches,
                            musicbrainz_candidates, worker, app>>

(* the request of a client for the page after the one it has got *)
NextPage ==
    IF last.op = "list_library_status"
    THEN { [last.filter EXCEPT !.offset = Some(last.page.offset + last.page.limit)] }
    ELSE {}

(* a client pages through the view of a filter, or turns to another view *)
NextStatus == ListLibraryStatus(StatusFilters \cup NextPage)

SpecStatus == InitStatus /\ [][NextStatus]_vars

(* the tracks the filter selects *)
Selected(filter) ==
    { t \in DOMAIN tracks : Where(filter, JoinedRow(Database, t)) }

(* C27: the pages of a filter at the offsets 0, L, 2L, ... of the limit L  *)
(* in force (the requested one when it is in 1..500) have at most L rows   *)
(* each, name no track twice, name only tracks the filter selects and name *)
(* them in the order of updated_at descending, then id ascending; after    *)
(* the page at offset k they name the first min(total, k + L) tracks, so   *)
(* all of them once the offset has passed total - L; and total is the      *)
(* number of tracks the filter selects, at every offset and limit.         *)
PagesPartitionTheResult ==
    (last.op = "list_library_status") =>
        LET filter == last.filter
            page == last.page
            seen == last.seen
        IN /\ page.limit \in 1..MAX_LIMIT
           /\ (IsSome(filter.limit) /\ filter.limit[1] \in 1..MAX_LIMIT)
                 => page.limit = filter.limit[1]
           /\ Len(page.rows) <= page.limit
           /\ page.total = Cardinality(Selected(filter))
           /\ \A i, j \in DOMAIN seen : seen[i] = seen[j] => i = j
           /\ Range(seen) \subseteq Selected(filter)
           /\ \A i, j \in DOMAIN seen :
                 i < j => OrderedBefore(JoinedRow(Database, seen[i]),
                                        JoinedRow(Database, seen[j]))
           /\ Len(seen) = Min(page.total, page.offset + page.limit)
           /\ page.offset + page.limit >= page.total => Range(seen) = Selected(filter)

(* the second page of a filter that selects three tracks, two of them with *)
(* one updated_at, asked for with limit two                                *)
LastPageListed ==
    /\ last.op = "list_library_status"
    /\ last.filter.limit = Some(2)
    /\ last.filter.missing_assets_only
    /\ last.filter.unresolved_discogs_only
    /\ last.page.offset = 2
    /\ last.page.total = 3
    /\ Len(last.page.rows) = 1
    /\ Len(last.seen) = 3
    /\ tracks[last.seen[1]].updated_at = tracks[last.seen[2]].updated_at
    /\ Cardinality(DOMAIN tracks) = 3

----------------------------------------------------------------------------
(* The denormalized summary of a track: the <catalog>_release_id and       *)
(* <catalog>_confidence columns of tracks, written by persist_*_match and  *)
(* by upsert_track                                                         *)

(* the commands and handlers that write the tracks row of one track, the   *)
(* lookup outcomes for it and the import                                   *)
NextSummary ==
    \/ UpsertTrack(TrackRecords, {SharedTrackId})
    \/ SyncSoundcloudTrack({SharedTrackId})
    \/ RecordSuccess(Catalogs, {SharedTrackId}, {ReleaseWithId}, {0, 3})
    \/ RecordFailure(Catalogs, {SharedTrackId}, {0})
    \/ SyncRekordboxTracks

SpecSummary == InitOpened /\ [][NextSummary]_vars

(* C31: whenever a match row exists for a track in a catalog, the tracks   *)
(* row's release id and confidence for that catalog equal the match row's. *)
(* The code does not keep this: upsert_track overwrites the four summary   *)
(* columns with the values of its record, and the like and playlist        *)
(* handlers pass a record in which they are None, while the match row      *)
(* stays as the lookup wrote it.                                           *)
SummaryEqualsCatalogMatch ==
    \A catalog \in Catalogs : \A track_id \in DOMAIN MatchRows(catalog) :
        /\ track_id \in DOMAIN tracks
        /\ tracks[track_id][ReleaseIdColumn(catalog)] = MatchRows(catalog)[track_id].release_id
        /\ tracks[track_id][ConfidenceColumn(catalog)] = MatchRows(catalog)[track_id].confidence

----------------------------------------------------------------------------
(* Lookups of tracks of the DJ library while the library is imported       *)

(* build_lookup_payload on the row load_soundcloud_lookup reads: a track   *)
(* without source row has no tags                                          *)
LookupPayloadOf(db, track_id) ==
    Payload(track_id, db.tracks[track_id].title, db.tracks[track_id].title, <<>>)

(* the retry_discogs_lookup / retry_musicbrainz_lookup command:            *)
(* resolve_lookup_payload reads the track under the lock and fails when    *)
(* it is not in the library; queue_lookup is called after the lock is      *)
(* released                                                                *)
RetryLookup(bound) ==
    /\ opened
    /\ ~app.poisoned
    /\ \E track_id \in DOMAIN tracks :
          QueueLookup({LookupPayloadOf(Database, track_id)}, bound)

NextStale ==
    \/ SyncRekordboxTracks
    \/ RetryLookup(MaxPending)
    \/ Send
    \/ Dequeue
    \/ LimiterWait
    \/ LimiterWake
    \/ Tick
    \/ SearchResponded(NotFound)
    \/ Record(NoFailure)

SpecStale == InitLookup /\ [][NextStale]_vars

(* C32: a track removed as stale by the import stays removed until an      *)
(* import, an upsert or a source link names it again: no other step adds   *)
(* a tracks row or a match row of a track that is not in the library.      *)
(* Under SpecStale rows of tracks come from the import only and a lookup   *)
(* is queued for a track of the library only, so a job whose track is      *)
(* missing is a job of a track the import has removed.  The code does not  *)
(* keep this: persist_*_match starts with INSERT OR IGNORE INTO tracks, so *)
(* the record_* call of a job that was queued before the import brings     *)
(* the tracks row back, bare, with a match row.                            *)
RemovedTrackStaysRemoved ==
    [][ last'.op # "sync_rekordbox_tracks"
        => /\ DOMAIN tracks' \subseteq DOMAIN tracks
           /\ \A catalog \in Catalogs :
                 DOMAIN MatchRows(catalog)' \subseteq DOMAIN tracks ]_vars

----------------------------------------------------------------------------
(* The order of the jobs of one service                                    *)

(* the payloads of successive queue_lookup calls for one track, each call  *)
(* made after the one before has returned: the track's metadata differ     *)
(* from call to call                                                       *)
LookupCalls == <<FullPayload, BlankPayload, FullPayload>>

(* queue_lookup is called with the next payload: the call spawns the task  *)
(* that will send it, and returns                                          *)
QueueLookupInOrder(calls) ==
    QueueLookup({calls[worker.queued + 1]}, Len(calls))

NextOrder ==
    \/ QueueLookupInOrder(LookupCalls)
    \/ Send
    \/ Dequeue
    \/ WorkerStep
    \/ Tick
    \/ Record(NoFailure)

SpecOrder == InitVerdict /\ [][NextOrder]_vars

(* the message record_*_failure is called with for a payload whose search  *)
(* is answered with 404                                                    *)
VerdictOf(catalog, payload) ==
    IF Trim(QueryOf(catalog, payload)) = "" THEN "missing title or artist"
    ELSE IF catalog = "discogs" THEN "search returned status"
    ELSE "no releases found for track"

(* C33: the worker processes the jobs in the order of the queue_lookup     *)
(* calls: the k-th payload it receives is the payload of the k-th call,    *)
(* and when the last job is done the track's match is the verdict of the   *)
(* last call.  The code does not keep this: queue_lookup spawns a task per *)
(* call and returns before the task has sent, and the runtime may run the  *)
(* task of a later call first.                                             *)
JobsProcessedInCallOrder ==
    [][ /\ worker'.jobs = worker.jobs + 1
           => worker'.payload = Some(LookupCalls[worker'.jobs])
        /\ (worker'.jobs = Len(LookupCalls) /\ worker.pc = "persist" /\ worker'.pc = "idle")
           => /\ FullPayload.track_id \in DOMAIN MatchRows(worker.catalog)'
              /\ MatchRows(worker.catalog)'[FullPayload.track_id].message
                   = Some(VerdictOf(worker.catalog, LookupCalls[Len(LookupCalls)])) ]_vars
----------------------------------------------------------------------------
(* Imports and refreshes that overlap: load_tracks runs outside the lock   *)
(* of the library, the sync under it.  The library file has revisions; a   *)
(* snapshot is the revision load_tracks has read.  Besides the state of    *)
(* AppState, app holds the revision of the file (revision) and the         *)
(* snapshots of the import commands that have loaded and not yet synced    *)
(* (imports); a watcher task holds the modification time it has seen       *)
(* (last_modified) and the snapshot it has loaded (tracks).                *)

MaxRevisions == 2        \* modifications of the library file
MaxImports == 2          \* import commands in flight

Tables ==
    <<tracks, soundcloud_sources, rekordbox_sources, local_assets, rekordbox_mappings,
      discogs_matches, discogs_candidates, musicbrainz_matches, musicbrainz_candidates>>

(* the tracks load_tracks returns of a revision of the file: successive    *)
(* revisions hold different entries                                        *)
TracksOfRevision(revision) ==
    << CHOOSE track \in RekordboxTracks :
          track.rekordbox_id = ToString((revision % MaxRekordboxIds) + 1) >>

(* RekordboxWatcher::spawn before the loop: last_modified is the           *)
(* modification time the file has when the task starts                     *)
Spawned(state) ==
    [state EXCEPT !.tasks = [i \in DOMAIN @ |->
                               @[i] @@ [last_modified |-> state.revision, tracks |-> None]]]

InitOverlap ==
    /\ OpenedStore
    /\ worker = IdleWorker("discogs")
    /\ app = NewAppState("discogs") @@ [revision |-> 0, imports |-> <<>>]

(* the library file is written by the DJ software *)
FileModified ==
    /\ app.revision < MaxRevisions
    /\ app' = [app EXCEPT !.revision = @ + 1]
    /\ UNCHANGED <<opened, Tables, last, worker>>

(* import_rekordbox_library up to the lock: load_tracks has returned the   *)
(* tracks of the file as it is now                                         *)
ImportLoaded(paths) ==
    /\ opened
    /\ Len(app.imports) < MaxImports
    /\ \E path \in paths :
          app' = [app EXCEPT !.imports = Append(@, [path |-> path, tracks |-> app.revision])]
    /\ UNCHANGED <<opened, Tables, last, worker>>

(* import_rekordbox_library from the lock on: the sync of the tracks it    *)
(* has loaded, then the watcher                                            *)
ImportSynced(fails) ==
    /\ ~app.poisoned
    /\ \E i \in DOMAIN app.imports :
       LET import == app.imports[i]
           incoming == TracksOfRevision(import.tracks)
           ended == [app EXCEPT !.imports = RemoveAt(@, i)]
           after == IF supports_auto_refresh(import.path)
                    THEN Spawned(configure(ended, import.path)) ELSE disable(ended)
       IN \E order \in Orderings(DOMAIN StaleMap(rekordbox_mappings, incoming)) :
          \E fail \in fails :
             LET r == sync_rekordbox_tracks(Database, incoming, order, fail)
             IN /\ r.ok => Len(after.tasks) <= MaxTasks
                /\ Becomes(r.db)
                /\ last' = IF r.ok
                           THEN [op |-> "import_rekordbox_library", ok |-> TRUE,
                                 failed_at |-> "none", snapshot |-> import.tracks]
                           ELSE [op |-> "import_rekordbox_library", ok |-> FALSE,
                                 failed_at |-> r.failed_at]
                /\ app' = IF r.ok THEN after ELSE ended
                /\ UNCHANGED <<opened, worker>>

(* the sleep of a watcher task is over and the file's modification time is *)
(* later than the one the task has seen: last_modified is set and          *)
(* load_tracks is awaited.  A poll that finds the time unchanged changes   *)
(* nothing.                                                                *)
WatcherPolled ==
    /\ \E i \in DOMAIN app.tasks :
          /\ app.tasks[i].pc = "sleep"
          /\ app.revision > app.tasks[i].last_modified
          /\ app' = [app EXCEPT !.tasks[i].pc = "load",
                                !.tasks[i].last_modified = app.revision]
    /\ UNCHANGED <<opened, Tables, last, worker>>

(* load_tracks of a watcher task returns: the tracks of the file as it is  *)
(* now, or an error, which is logged                                       *)
WatcherLoaded(results) ==
    /\ \E i \in DOMAIN app.tasks, ok \in results :
          /\ app.tasks[i].pc = "load"
          /\ app' = IF ok
                    THEN [app EXCEPT !.tasks[i].pc = "sync",
                                     !.tasks[i].tracks = Some(app.revision)]
                    ELSE [app EXCEPT !.tasks[i].pc = "sleep"]
    /\ UNCHANGED <<opened, Tables, last, worker>>

(* the watcher task asks for the lock and syncs the tracks it has loaded;  *)
(* an error of the lock or of the sync is logged.  The task sleeps again.  *)
WatcherSynced(fails) ==
    \E i \in DOMAIN app.tasks :
       /\ app.tasks[i].pc = "sync"
       /\ app' = [app EXCEPT !.tasks[i].pc = "sleep", !.tasks[i].tracks = None]
       /\ UNCHANGED <<opened, worker>>
       /\ IF app.poisoned
          THEN /\ last' = [op |-> "rekordbox_refresh", ok |-> FALSE, failed_at |-> "lock"]
               /\ UNCHANGED Tables
          ELSE LET incoming == TracksOfRevision(app.tasks[i].tracks[1])
               IN \E order \in Orderings(DOMAIN StaleMap(rekordbox_mappings, incoming)) :
                  \E fail \in fails :
                     LET r == sync_rekordbox_tracks(Database, incoming, order, fail)
                     IN /\ Becomes(r.db)
                        /\ last' = IF r.ok
                                   THEN [op |-> "rekordbox_refresh", ok |-> TRUE,
                                         failed_at |-> "none",
                                         snapshot |-> app.tasks[i].tracks[1]]
                                   ELSE [op |-> "rekordbox_refresh", ok |-> FALSE,
                                         failed_at |-> r.failed_at]

NextOverlap ==
    \/ FileModified
    \/ ImportLoaded({MasterDb})
    \/ ImportSynced(NoFailure)
    \/ WatcherPolled
    \/ WatcherLoaded({TRUE})
    \/ WatcherSynced(NoFailure)

SpecOverlap == InitOverlap /\ [][NextOverlap]_vars

(* C34: a snapshot loaded earlier is never committed after a snapshot      *)
(* loaded later: each sync that commits commits a revision of the file     *)
(* that is not older than the revision committed before it.  The code does *)
(* not keep this: the command and the watcher load without the lock and    *)
(* take the lock afterwards, in any order.                                 *)
SnapshotsCommittedInLoadOrder ==
    [][ (last' # last /\ last'.ok /\ "snapshot" \in DOMAIN last)
          => last'.snapshot >= last.snapshot ]_vars

----------------------------------------------------------------------------
(* The frame of record_match, checked under SpecRecordMatch *)

(* the match row and the candidate rows of one track in one catalog *)
MatchAndCandidates(db, catalog, track_id) ==
    <<MatchState(db, catalog, track_id).match, MatchState(db, catalog, track_id).candidates>>

----------------------------------------------------------------------------
(* Startup on a database whose legacy payloads carry any status, and the   *)
(* lookup outcomes after it                                                *)

(* a payload with a status no version of the application has written, as   *)
(* the column is free text                                                 *)
PendingPayload == LegacyPayload(Some("pending"), None, None, None, <<>>)

(* a legacy database: the tracks ids may carry a payload of payloads in    *)
(* either column, nothing normalized yet                                   *)
InitLegacy(ids, payloads) ==
    /\ opened = FALSE
    /\ \E present \in SUBSET ids :
          tracks \in [present -> { [BareTrack EXCEPT !.discogs_payload = d,
                                                     !.musicbrainz_payload = m] :
                                   d \in {None} \cup { Some(p) : p \in payloads },
                                   m \in {None} \cup { Some(p) : p \in payloads } }]
    /\ soundcloud_sources = EmptyTable
    /\ rekordbox_sources = EmptyTable
    /\ local_assets = EmptyTable
    /\ rekordbox_mappings = EmptyTable
    /\ discogs_matches = EmptyTable
    /\ discogs_candidates = <<>>
    /\ musicbrainz_matches = EmptyTable
    /\ musicbrainz_candidates = <<>>
    /\ last = [op |-> "none", ok |-> TRUE, failed_at |-> "none"]
    /\ worker = IdleWorker("discogs")
    /\ app = NewAppState("discogs")

InitStatuses == InitLegacy(LegacyTrackIds, LegacyPayloads \cup {PendingPayload})

NextStatuses ==
    \/ Initialize
    \/ Exit
    \/ RecordSuccess(Catalogs, SoundcloudTrackIds, {ReleaseWithId}, NoFailure)
    \/ RecordAmbiguity(Catalogs, SoundcloudTrackIds, {ReleaseWithId}, NoFailure)
    \/ RecordFailure(Catalogs, SoundcloudTrackIds, NoFailure)

SpecStatuses == InitStatuses /\ [][NextStatuses]_vars

MatchStatuses == {"success", "ambiguous", "error"}

(* C36: in every state of the store, also directly after the migration of  *)
(* legacy payloads whose status is missing or is any string, the status of *)
(* every match row of either catalog is success, ambiguous or error.  The  *)
(* code does not keep this: migrate_musicbrainz_payloads stores the status *)
(* string of the payload as it reads it, where migrate_discogs_payloads    *)
(* takes it through DiscogsMatchStatus::from_str.                          *)
MatchStatusIsKnown ==
    \A catalog \in Catalogs : \A track_id \in DOMAIN MatchRows(catalog) :
        MatchRows(catalog)[track_id].status \in MatchStatuses

----------------------------------------------------------------------------
(* The legacy payload columns in steady state: the commands and handlers,  *)
(* the lookup outcomes, the import, and the next startup                   *)

(* the records of the upsert_track command whose musicbrainz_payload the   *)
(* caller has filled in                                                    *)
PayloadTrackRecords ==
    { [record EXCEPT !.musicbrainz_payload = Some(payload)] :
        record \in HandlerTrackRecords,
        payload \in {LegacyPayload(Some("error"), None, None, None, <<>>)} }

NextLegacy ==
    \/ UpsertTrack(HandlerTrackRecords \cup PayloadTrackRecords, SoundcloudTrackIds)
    \/ SyncSoundcloudTrack(SoundcloudTrackIds)
    \/ RecordSuccess(Catalogs, SoundcloudTrackIds, {ReleaseWithId}, NoFailure)
    \/ SyncRekordboxTracks
    \/ Exit
    \/ Initialize

SpecLegacy == InitOpened /\ [][NextLegacy]_vars

(* C37: no call of upsert_track, sync_soundcloud_track, record_match or    *)
(* sync_rekordbox_tracks leaves a legacy payload on a track, and so the    *)
(* migration of a later startup leaves every match row as it finds it.     *)
(* The code does not keep this: upsert_track writes musicbrainz_payload    *)
(* from its record, and the next initialize migrates that payload over the *)
(* match row a lookup has written.                                         *)
NoLegacyPayloadInSteadyState ==
    [][ /\ opened =>
           \A track_id \in DOMAIN tracks', catalog \in Catalogs :
               tracks'[track_id][PayloadColumn(catalog)] = None
        /\ (~opened /\ opened') =>
           \A catalog \in Catalogs : \A track_id \in DOMAIN MatchRows(catalog) :
               /\ track_id \in DOMAIN MatchRows(catalog)'
               /\ MatchRows(catalog)'[track_id] = MatchRows(catalog)[track_id] ]_vars

----------------------------------------------------------------------------
(* The ambiguity event of a job whose outcome the store does not take: the *)
(* lock is poisoned, or record_*_ambiguity fails                           *)

NextEvent ==
    \/ ReceiveJob({FullPayload})
    \/ LimiterWait
    \/ LimiterWake
    \/ Tick
    \/ SearchResponded(NotFound \cup {AmbiguousResponse})
    \/ Record({0, 2})
    \/ Poison

SpecEvent == InitVerdict /\ [][NextEvent]_vars

(* C38: whenever the ambiguity event of a track is emitted, the store      *)
(* holds a match row with status ambiguous for the track in the worker's   *)
(* catalog, also when the lock is poisoned or record_*_ambiguity returns   *)
(* an error.  The code does not keep this: process_job emits the event     *)
(* after the if let Ok(store) = library.lock() block, whatever happened in *)
(* it.                                                                     *)
EventAfterAmbiguityPersisted ==
    [][ worker'.events > worker.events
          => /\ worker'.event[1].track_id \in DOMAIN MatchRows(worker.catalog)'
             /\ MatchRows(worker.catalog)'[worker'.event[1].track_id].status
                   = "ambiguous" ]_vars

----------------------------------------------------------------------------
(* The watcher of a library file whose load or sync may fail               *)

NextWatch ==
    \/ FileModified
    \/ ImportLoaded({MasterDb})
    \/ ImportSynced(NoFailure)
    \/ WatcherPolled
    \/ WatcherLoaded(BOOLEAN)
    \/ WatcherSynced({0, 1})
    \/ Poison

SpecWatch == InitOverlap /\ [][NextWatch]_vars

(* what a step of a watcher task does to the task *)
WatcherStep ==
    \/ WatcherPolled
    \/ WatcherLoaded(BOOLEAN)
    \/ \E i \in DOMAIN app.tasks :
          /\ app.tasks[i].pc = "sync"
          /\ app' = [app EXCEPT !.tasks[i].pc = "sleep", !.tasks[i].tracks = None]

(* the timer of the watcher task fires, load_tracks returns and the lock   *)
(* is handed over: a watcher task that can go on does go on                *)
FairWatch == SpecWatch /\ WF_app(WatcherStep)

(* the store holds the entries of the file as it is now *)
Reflected ==
    DOMAIN rekordbox_mappings
       = { TracksOfRevision(app.revision)[i].rekordbox_id :
             i \in 1..Len(TracksOfRevision(app.revision)) }

(* the watcher is configured and its task sleeps *)
WatcherSleeps ==
    /\ IsSome(app.watcher)
    /\ app.tasks[app.watcher[1].handle].pc = "sleep"

(* C39: while the watcher stays configured, a modification of the file is  *)
(* in the end reflected in the store, and a refresh that has failed is     *)
(* attempted again on a later poll: from a state in which the refresh of   *)
(* the watcher has failed at the lock or in the store, the watcher sleeps  *)
(* and the store does not hold the entries of the file, the task comes to  *)
(* load the file again, or the store comes to hold them, or the   *)
(* watcher is taken away.  The code does not keep this: the task sets      *)
(* last_modified before it loads, so after a failed load or sync it finds  *)
(* the file unchanged at every later poll.                                 *)
FailedRefreshIsRetried ==
    (WatcherSleeps /\ ~Reflected /\ last.op = "rekordbox_refresh" /\ ~last.ok)
       ~> \/ ~IsSome(app.watcher)
          \/ Reflected
          \/ app.tasks[app.watcher[1].handle].pc = "load"

----------------------------------------------------------------------------
(* The locks of AppState and the tasks that take them: the listener of the *)
(* like event, the lookup worker, the import command and the watcher.      *)
(* Besides its other fields, app holds the holder of the mutex of the      *)
(* library (library) and of the mutex of RekordboxState (rekordbox), the   *)
(* listener (handler) and the import command (import).  A task whose pc is *)
(* lock or lock_rekordbox has called lock() and is blocked until the mutex *)
(* is free.                                                                *)

(* the payload of the like event: a track without a usable title or        *)
(* artist, which the workers record without a request                      *)
LikePayload == BlankPayload

MaxLikes == 3     \* like events the listener is called with

(* the application after the likes of a session in which the worker was    *)
(* not polled: the channel of the service has one free slot                *)
InitLocks ==
    /\ OpenedStore
    /\ worker = [IdleWorker("discogs") EXCEPT
                   !.channel = [i \in 1..(ChannelCapacity - 1) |-> LikePayload],
                   !.queued = ChannelCapacity - 1]
    /\ app = NewAppState("discogs")
               @@ [library |-> None, rekordbox |-> None,
                   handler |-> [pc |-> "idle", count |-> 0],
                   import |-> [pc |-> "idle", count |-> 0]]

(* the like event arrives: the listener calls state.library.lock() *)
LikeReceived ==
    /\ app.handler.pc = "idle"
    /\ app.handler.count < MaxLikes
    /\ worker.queued < MaxQueued
    /\ app' = [app EXCEPT !.handler.pc = "lock", !.handler.count = @ + 1]
    /\ UNCHANGED <<opened, Tables, last, worker>>

(* lock() returns the guard to the listener *)
LikeLocked ==
    /\ app.handler.pc = "lock"
    /\ app.library = None
    /\ app' = [app EXCEPT !.handler.pc = "sync", !.library = Some("handler")]
    /\ UNCHANGED <<opened, Tables, last, worker>>

(* a listener that sends the payload itself: it waits, with the guard, for *)
(* a free slot of the channel                                              *)
LikeSyncedAndSent ==
    /\ app.handler.pc \in {"sync", "send"}
    /\ IF app.handler.pc = "sync"
       THEN /\ Stores(sync_soundcloud_track(Database, TrackRecordOf(LikePayload),
                                            SourceRecordOf(LikePayload), 0),
                      "sync_soundcloud_track", NoDetail)
            /\ app' = [app EXCEPT !.handler.pc = "send"]
            /\ UNCHANGED worker
       ELSE /\ Len(worker.channel) < ChannelCapacity
            /\ worker' = [worker EXCEPT !.channel = Append(@, LikePayload),
                                        !.queued = @ + 1]
            /\ app' = [app EXCEPT !.handler.pc = "unlock"]
            /\ UNCHANGED <<opened, Tables, last>>

(* the listener with the guard: sync_soundcloud_track, then queue_lookup   *)
(* on both services, each of which spawns the task that will send          *)
LikeSynced ==
    /\ app.handler.pc = "sync"
    /\ \E fail \in {0, 3} :
          LET r == sync_soundcloud_track(Database, TrackRecordOf(LikePayload),
                                         SourceRecordOf(LikePayload), fail)
              payloads == IF r.ok THEN <<LikePayload>> ELSE <<>>
          IN /\ Stores(r, "sync_soundcloud_track", NoDetail)
             /\ worker' = QueuedOn(worker, payloads)
             /\ app' = [app EXCEPT !.handler.pc = "unlock",
                                   !.peer = QueuedOn(@, payloads)]

(* the listener returns: the guard is dropped *)
LikeUnlocked ==
    /\ app.handler.pc = "unlock"
    /\ app' = [app EXCEPT !.handler.pc = "idle", !.library = None]
    /\ UNCHANGED <<opened, Tables, last, worker>>

(* recv() of the worker yields the oldest payload of the channel *)
WorkerDequeued ==
    /\ worker.jobs < MaxJobs
    /\ Dequeue

(* process_job with the result of the job: lock(), the record_* call and   *)
(* the end of the block that drops the guard                               *)
WorkerRecorded ==
    /\ app.library = None
    /\ Record(NoFailure)

(* import_rekordbox_library: load_tracks has returned and the command      *)
(* calls state.library.lock()                                              *)
ImportRequested ==
    /\ app.import.pc = "idle"
    /\ app.import.count < MaxImports
    /\ app' = [app EXCEPT !.import.pc = "lock", !.import.count = @ + 1]
    /\ UNCHANGED <<opened, Tables, last, worker>>

ImportLocked ==
    /\ app.import.pc = "lock"
    /\ app.library = None
    /\ app' = [app EXCEPT !.import.pc = "sync", !.library = Some("import")]
    /\ UNCHANGED <<opened, Tables, last, worker>>

(* the command with the guard: sync_rekordbox_tracks; the block ends and   *)
(* the guard is dropped, on an error with the command; then the command    *)
(* calls state.rekordbox.lock()                                            *)
ImportSyncedAndUnlocked ==
    /\ app.import.pc = "sync"
    /\ \E incoming \in {TracksOfRevision(0)} :
       \E order \in Orderings(DOMAIN StaleMap(rekordbox_mappings, incoming)) :
       \E fail \in 0..1 :
          LET r == sync_rekordbox_tracks(Database, incoming, order, fail)
          IN /\ Stores(r, "import_rekordbox_library", NoDetail)
             /\ app' = [app EXCEPT !.import.pc = IF r.ok THEN "lock_rekordbox" ELSE "idle",
                                   !.library = None]
             /\ UNCHANGED worker

ImportLockedRekordbox ==
    /\ app.import.pc = "lock_rekordbox"
    /\ app.rekordbox = None
    /\ app' = [app EXCEPT !.import.pc = "configure", !.rekordbox = Some("import")]
    /\ UNCHANGED <<opened, Tables, last, worker>>

(* the command with the guard of RekordboxState: configure, and the        *)
(* command returns                                                         *)
ImportConfigured ==
    /\ app.import.pc = "configure"
    /\ app' = [configure(app, MasterDb) EXCEPT !.import.pc = "idle", !.rekordbox = None]
    /\ UNCHANGED <<opened, Tables, last, worker>>

(* load_tracks of a watcher task has returned: lock(), the sync and the    *)
(* end of the arm that drops the guard                                     *)
WatcherRefreshed ==
    /\ app.library = None
    /\ WatcherRefresh({TracksOfRevision(0)})

NextLocks ==
    \/ LikeReceived
    \/ LikeLocked
    \/ LikeSynced
    \/ LikeUnlocked
    \/ Send
    \/ WorkerDequeued
    \/ WorkerRecorded
    \/ ImportRequested
    \/ ImportLocked
    \/ ImportSyncedAndUnlocked
    \/ ImportLockedRekordbox
    \/ ImportConfigured
    \/ WatcherWake
    \/ WatcherRefreshed

SpecLocks == InitLocks /\ [][NextLocks]_vars


(* the steps of the listener and of the import command that have been     *)
(* called, as far as app goes                                              *)
CallStep ==
    \/ LikeLocked
    \/ /\ app.handler.pc = "sync"
       /\ \E payloads \in {<<>>, <<LikePayload>>} :
             app' = [app EXCEPT !.handler.pc = "unlock", !.peer = QueuedOn(@, payloads)]
    \/ LikeUnlocked
    \/ ImportLocked
    \/ /\ app.import.pc = "sync"
       /\ \E pc \in {"lock_rekordbox", "idle"} :
             app' = [app EXCEPT !.import.pc = pc, !.library = None]
    \/ ImportLockedRekordbox
    \/ ImportConfigured

(* a step of a sender task or of the worker; the worker at persist goes on *)
(* when the mutex of the library is free                                   *)
LookupStep ==
    \/ Send
    \/ WorkerDequeued
    \/ app.library = None /\ Records

(* the threads and the runtime go on: a task that can take a step is not   *)
(* left aside for ever, and a mutex that stays free is handed to a task    *)
(* that waits for it                                                       *)
FairLocks ==
    /\ SpecLocks
    /\ WF_app(CallStep)
    /\ WF_worker(LookupStep)

(* a task holds a guard while it is blocked: on lock() of a mutex, or on a *)
(* channel without a free slot                                             *)
HolderWaits ==
    \/ /\ app.library = Some("handler")
       /\ \/ app.handler.pc = "lock"
          \/ app.handler.pc = "send" /\ Len(worker.channel) >= ChannelCapacity
    \/ /\ app.library = Some("import")
       /\ app.import.pc \in {"lock", "lock_rekordbox"}
    \/ /\ app.rekordbox = Some("import")
       /\ app.import.pc \in {"lock", "lock_rekordbox"}

(* C40: the tasks do not deadlock.  No task that holds the guard of the    *)
(* library (or of RekordboxState) is blocked on another lock or on a full  *)
(* channel: the listener hands its payload to queue_lookup with the guard  *)
(* and goes on whatever the channel holds.  The threads being scheduled    *)
(* fairly and the events of the run being finitely many, from some point   *)
(* on no guard is held and no task waits for one: every holder has dropped *)
(* its guard and every waiter (the listener, the import command at either  *)
(* lock, the worker with a result to record) has got the lock and gone on. *)
DeadlockFree ==
    /\ [](~HolderWaits)
    /\ <>[](/\ app.library = None /\ app.rekordbox = None
            /\ app.handler.pc = "idle" /\ app.import.pc = "idle"
            /\ worker.pc # "persist")

(* the listener holds the guard and has handed its payload to queue_lookup *)
(* while the channel is full, so that the sender task waits; the worker    *)
(* has a result to record and the import command a list to sync, and both  *)
(* wait for the guard                                                      *)
LockContended ==
    /\ app.library = Some("handler")
    /\ app.handler.pc = "unlock"
    /\ Len(worker.channel) = ChannelCapacity
    /\ Len(worker.senders) > 0
    /\ worker.pc = "persist"
    /\ app.import.pc = "lock"

====
